---- MODULE Spec2Model ----
(***************************************************************************)
(* A model of obsidian-bracelet: the advanced merge planner                *)
(* (src/obsidian_bracelet/planner.py, build_plan) and the advanced plan    *)
(* executor (src/obsidian_bracelet/apply.py, apply_plan); the vault        *)
(* indexer (src/obsidian_bracelet/indexer.py, generate_indexes).           *)
(*                                                                         *)
(* Paths.  A vault-relative path is a record [dir, stem, ext]: dir is the  *)
(* sequence of directory segments, ext the suffix with its dot, and stem   *)
(* a sequence of strings whose concatenation is the file's stem: the base  *)
(* stem first, then every "__vault-<label>" or "__from-<label>" appended   *)
(* to it, so that <<"a", "__vault-A">> stands for the stem "a__vault-A".   *)
(* A destination is the                                                    *)
(* same kind of record, read relative to the target root; the target root  *)
(* itself is a directory whose path holds no "!res/".                      *)
(* Contents.  A file's bytes are a content id; SHA-256 is modelled as      *)
(* injective on contents.  The links a content holds are given by LinksOf. *)
(***************************************************************************)
EXTENDS Integers, Sequences, FiniteSets, TLC

VARIABLES
    fs,               \* source vaults: <<vault, rel>> -> content id (the files that exist)
    obsidian_dirs,    \* the source directories that have a .obsidian child
    disk,             \* the target tree's condition: "ok", "readonly" or "any"
    target_fs,        \* target tree: dest -> what the file holds (the files that exist)
    target_dirs,      \* target tree: the directories that exist
    ignore_patterns,  \* build_plan argument
    pc,               \* position inside build_plan
    index,            \* build_plan local: relpath -> entries, in insertion order
    excluded,         \* build_plan local
    actions,          \* build_plan local: the plan's action list
    notes,            \* build_plan local
    warnings,         \* build_plan local
    replaced_files,   \* build_plan local: dict old dest -> new dest, as a sequence of pairs
    dry_run,          \* apply_plan argument
    apc,              \* position inside apply_plan: "idle", "loop", "returned", "raised"
    pos,              \* apply_plan: index of the action the loop is at
    executed,         \* history: the positions whose branch ran to its end, in order
    err,              \* the exception apply_plan raised: "none", "ValueError", "OSError"
    failed,           \* history: the kinds of I/O failure that have occurred
    link_in,          \* _update_links: the link a regex match hands to its callback
    link_out,         \* _update_links: what the callback returns for it
    vault_files,      \* indexer: the vault's files with their mtime, in rglob order
    existing_files,   \* indexer: the YEAR*.md / MONTH*.md files of output_dir before the run
    overwrite,        \* generate_indexes argument
    update_tags,      \* generate_indexes argument
    file_data,        \* generate_indexes local: year -> month -> files, in insertion order
    tagged,           \* the files whose frontmatter update_file_tags has rewritten
    index_writes,     \* the index files written, one entry per write_text call, in order
    ipc,              \* position inside generate_indexes
    md_file,          \* update_file_tags: the file at file_path, as it is on disk
    tag_ret,          \* update_file_tags: "none" before the call, then what it returned
    gui_in,           \* build_plan_action: its arguments sources_str and target_str
    gui_out           \* build_plan_action: the tuple it returned, <<>> before it returns

planVars == <<ignore_patterns, pc, index, excluded, actions, notes, warnings, replaced_files>>
applyVars == <<dry_run, apc, pos, executed, err, failed>>
vars == <<fs, obsidian_dirs, disk, target_fs, target_dirs, ignore_patterns, pc, index, excluded, actions, notes,
          warnings, replaced_files, dry_run, apc, pos, executed, err, failed,
          link_in, link_out, vault_files, existing_files, overwrite, update_tags, file_data,
          tagged, index_writes, ipc, md_file, tag_ret, gui_in, gui_out>>
guiVars == <<gui_in, gui_out>>
tagVars == <<md_file, tag_ret>>
indexVars == <<vault_files, existing_files, overwrite, update_tags, file_data, tagged,
               index_writes, ipc>>

----------------------------------------------------------------------------
(* Bounds and universe *)

MaxFiles == 3

Vaults == {1, 2, 3}

\* the sources argument of build_plan: three directories A, B, C, none of which has
\* a subdirectory that is itself a vault
source_args == <<1, 2, 3>>

\* a source with .obsidian is a vault; one without, and without vault
\* subdirectories, is left out
\* every source argument taken as a vault, marker or not
expanded_sources_unchecked == source_args

expanded_sources == SelectSeq(source_args, LAMBDA s : s \in obsidian_dirs)

\* sources = expanded_sources
sources == expanded_sources

\* warnings.append(f"{s} does not contain any Obsidian vaults ...")
expand_warnings ==
    LET bad == SelectSeq(source_args, LAMBDA s : s \notin obsidian_dirs)
    IN [i \in DOMAIN bad |-> [kind |-> "does not contain any Obsidian vaults", src |-> bad[i]]]

VaultName(v) == CASE v = 1 -> "A" [] v = 2 -> "B" [] v = 3 -> "C"

P_a   == [dir |-> <<>>, stem |-> <<"a">>, ext |-> ".md"]
P_b   == [dir |-> <<"d">>, stem |-> <<"b">>, ext |-> ".md"]
P_img == [dir |-> <<>>, stem |-> <<"img">>, ext |-> ".png"]
P_txt == [dir |-> <<>>, stem |-> <<"t">>, ext |-> ".txt"]
P_u   == [dir |-> <<>>, stem |-> <<"u">>, ext |-> ".txt"]
P_app == [dir |-> <<".obsidian">>, stem |-> <<"app">>, ext |-> ".json"]

Paths == {P_a, P_b, P_img, P_txt, P_app}

\* rglob lists a directory's own entries before those of its subdirectories
\* a__vault-A.md and t__vault-A.txt: files that already carry the suffix of a renamed copy
P_a_vA == [dir |-> <<>>, stem |-> <<"a", "__vault-A">>, ext |-> ".md"]
P_txt_vA == [dir |-> <<>>, stem |-> <<"t", "__vault-A">>, ext |-> ".txt"]

PathOrder == <<P_a, P_img, P_txt, P_u, P_app, P_b, P_a_vA, P_txt_vA>>

Contents == {1, 2, 3}

\* content 3 is a note with links to a.md, d/b.md, img.png, t.txt and u.txt
LinksOf(c) == IF c = 3 THEN {P_a, P_b, P_img, P_txt, P_u} ELSE {}

IgnoreChoices == {<<>>, <<"\\.png$">>}

Range(s) == {s[i] : i \in DOMAIN s}

SeqsOf(S) == {s \in [1..Cardinality(S) -> S] : Range(s) = S}

NoLink == [kind |-> "none"]

NoCall == [sources_str |-> <<>>, target_str |-> "none"]

GuiIdle == gui_in = NoCall /\ gui_out = <<>>

NoFile == [ext |-> "none"]

\* update_file_tags has not been called
TagIdle ==
    /\ md_file = NoFile
    /\ tag_ret = "none"

\* generate_indexes has not been called
IndexIdle ==
    /\ vault_files = <<>>
    /\ existing_files = {}
    /\ overwrite = FALSE
    /\ update_tags = FALSE
    /\ file_data = <<>>
    /\ tagged = {}
    /\ index_writes = <<>>
    /\ ipc = "idle"

----------------------------------------------------------------------------
(* Path helpers *)

lower(e) == CASE e = ".MD" -> ".md" [] e = ".TXT" -> ".txt" [] OTHER -> e

IsMd(rel) == lower(rel.ext) = ".md"

UnderObsidian(rel) == Len(rel.dir) >= 1 /\ rel.dir[1] = ".obsidian"

InRes(rel) == \E i \in DOMAIN rel.dir : rel.dir[i] = "!res"

Res(rel) == [rel EXCEPT !.dir = <<"!res">> \o @]

Relocate(rel) == IF ~IsMd(rel) /\ ~UnderObsidian(rel) THEN Res(rel) ELSE rel

\* f"__vault-{vname}" and f"__from-{vname}"
vault_suffix(vname) == CASE vname = "A" -> "__vault-A" [] vname = "B" -> "__vault-B"
                         [] vname = "C" -> "__vault-C"

from_suffix(vname) == CASE vname = "A" -> "__from-A" [] vname = "B" -> "__from-B"
                        [] vname = "C" -> "__from-C"

\* Path(rel).with_name(f"{stem}__vault-{vname}{ext}")
with_vault_name(rel, vname) == [rel EXCEPT !.stem = Append(@, vault_suffix(vname))]

parts(rel) == Len(rel.dir) + 1

re_search(pattern, rel) == CASE pattern = "\\.png$" -> rel.ext = ".png"
                             [] OTHER -> FALSE

exists(v, rel) == <<v, rel>> \in DOMAIN fs

sha256(src) == fs[<<src.vault, src.rel>>]

read_text(src) == fs[<<src.vault, src.rel>>]

----------------------------------------------------------------------------
(* build_plan: enumeration (planner.py 103-128) *)

\* _rel_files: every file of the vault except .obsidian/workspace*
workspace(rel) == rel.dir = <<".obsidian">> /\ rel.stem[1] = "workspace"

rel_files(v) == SelectSeq(PathOrder, LAMBDA rel : exists(v, rel) /\ ~workspace(rel))

RECURSIVE Flatten(_)
Flatten(ss) == IF ss = <<>> THEN <<>> ELSE Head(ss) \o Flatten(Tail(ss))

\* the (vault, rel) pairs in the order the two nested loops visit them
ScanList == Flatten([i \in DOMAIN sources |->
                [j \in DOMAIN rel_files(sources[i]) |->
                    [vault |-> sources[i], rel |-> rel_files(sources[i])[j]]]])

ignored(rel) == \E i \in DOMAIN ignore_patterns : re_search(ignore_patterns[i], rel)

\* index[str(rel)].append(...): a new key goes to the end of the dict
index_append(idx, rel, e) ==
    IF \E i \in DOMAIN idx : idx[i].rel = rel
    THEN [i \in DOMAIN idx |-> IF idx[i].rel = rel
                               THEN [idx[i] EXCEPT !.entries = Append(@, e)]
                               ELSE idx[i]]
    ELSE Append(idx, [rel |-> rel, entries |-> <<e>>])

scan_file(st, f) ==
    IF ignored(f.rel)
    THEN [st EXCEPT !.excluded = Append(@, [vault |-> VaultName(f.vault), rel |-> f.rel])]
    ELSE [st EXCEPT !.index = index_append(@, f.rel,
              [vname |-> VaultName(f.vault), ap |-> f, h |-> sha256(f)])]

RECURSIVE scan_all(_, _)
scan_all(st, list) ==
    IF list = <<>> THEN st ELSE scan_all(scan_file(st, Head(list)), Tail(list))

\* the scan creating the target directory when it plans the mkdir action
build_plan_scan_mkdir ==
    /\ pc = "scan"
    /\ LET st == scan_all([index |-> <<>>, excluded |-> <<>>], ScanList)
       IN /\ index' = st.index
          /\ excluded' = st.excluded
    /\ actions' = <<[type |-> "mkdir", path |-> "."]>>
    /\ warnings' = expand_warnings
    /\ target_dirs' = target_dirs \cup {<<>>}
    /\ pc' = "resolve"
    /\ UNCHANGED <<guiVars, tagVars, indexVars, fs, obsidian_dirs, disk, link_in, link_out, target_fs, applyVars, ignore_patterns, notes, replaced_files>>

\* the scan without the initial mkdir action
build_plan_scan_no_mkdir ==
    /\ pc = "scan"
    /\ LET st == scan_all([index |-> <<>>, excluded |-> <<>>], ScanList)
       IN /\ index' = st.index
          /\ excluded' = st.excluded
    /\ actions' = <<>>
    /\ warnings' = expand_warnings
    /\ pc' = "resolve"
    /\ UNCHANGED <<guiVars, tagVars, indexVars, fs, obsidian_dirs, disk, link_in, link_out, target_fs, target_dirs, applyVars, ignore_patterns, notes, replaced_files>>

build_plan_scan ==
    /\ pc = "scan"
    /\ LET st == scan_all([index |-> <<>>, excluded |-> <<>>], ScanList)
       IN /\ index' = st.index
          /\ excluded' = st.excluded
    /\ actions' = <<[type |-> "mkdir", path |-> "."]>>
    /\ warnings' = expand_warnings
    /\ pc' = "resolve"
    /\ UNCHANGED <<guiVars, tagVars, indexVars, fs, obsidian_dirs, disk, link_in, link_out, target_fs, target_dirs, applyVars, ignore_patterns, notes, replaced_files>>

----------------------------------------------------------------------------
(* build_plan: per-path resolution (planner.py 143-187) *)

hashes(entries) == {entries[i].h : i \in DOMAIN entries}

rename_copies(rel, entries) ==
    [i \in DOMAIN entries |->
        [type |-> "rename_copy", src |-> entries[i].ap,
         dest |-> with_vault_name(rel, entries[i].vname)]]

\* identical content: keep last
kept_entry_last(entries) == entries[Len(entries)]

\* identical content: keep first
kept_entry(entries) == entries[1]

\* a merge proposed for any number of markdown contributors
proposes_merge_any(key, entries) == IsMd(key) /\ Len(entries) >= 2

\* if is_md and len(entries) == 2
proposes_merge(key, entries) == IsMd(key) /\ Len(entries) = 2

\* the two sides swapped
merge_action_swapped(rel, entries) ==
    [type |-> "merge_markdown", src_a |-> entries[2].ap, src_b |-> entries[1].ap,
     dest |-> rel, vault_a |-> entries[2].vname, vault_b |-> entries[1].vname]

merge_action(rel, entries) ==
    [type |-> "merge_markdown", src_a |-> entries[1].ap, src_b |-> entries[2].ap,
     dest |-> rel, vault_a |-> entries[1].vname, vault_b |-> entries[2].vname]

\* what one iteration of the loop adds: [actions, notes, warnings]
resolve_path(key, entries) ==
    LET rel == Relocate(key) IN
    IF Len(entries) = 1
    THEN [actions |-> <<[type |-> "copy", src |-> entries[1].ap, dest |-> rel]>>,
          notes |-> <<>>, warnings |-> <<>>]
    ELSE IF Cardinality(hashes(entries)) = 1
    THEN [actions |-> <<[type |-> "copy", src |-> kept_entry(entries).ap, dest |-> rel]>>,
          notes |-> <<[kind |-> "Deduplicated identical", rel |-> rel,
                       n |-> Len(entries), kept |-> kept_entry(entries).vname]>>,
          warnings |-> <<>>]
    ELSE IF proposes_merge(key, entries)
    THEN [actions |-> <<merge_action(rel, entries)>>,
          notes |-> <<[kind |-> "Proposed merge for markdown collision", rel |-> rel,
                       v1 |-> entries[1].vname, v2 |-> entries[2].vname]>>,
          warnings |-> <<>>]
    ELSE [actions |-> rename_copies(rel, entries),
          notes |-> <<>>,
          warnings |-> <<[kind |-> "Collision", rel |-> rel, n |-> Len(entries)]>>]

RECURSIVE resolve_all(_, _)
resolve_all(st, idx) ==
    IF idx = <<>> THEN st
    ELSE LET r == resolve_path(Head(idx).rel, Head(idx).entries)
         IN resolve_all([actions |-> st.actions \o r.actions,
                         notes |-> st.notes \o r.notes,
                         warnings |-> st.warnings \o r.warnings], Tail(idx))

build_plan_resolve ==
    /\ pc = "resolve"
    /\ LET st == resolve_all([actions |-> actions, notes |-> notes, warnings |-> warnings],
                             index)
       IN /\ actions' = st.actions
          /\ notes' = st.notes
          /\ warnings' = st.warnings
    /\ pc' = "linked"
    /\ UNCHANGED <<guiVars, tagVars, indexVars, fs, obsidian_dirs, disk, link_in, link_out, target_fs, target_dirs, applyVars, ignore_patterns, index, excluded,
                   replaced_files>>

----------------------------------------------------------------------------
(* build_plan: linked files and the settings placeholder (planner.py 193-235) *)

planned_files(acts) ==
    {acts[i].dest : i \in {j \in DOMAIN acts :
                              acts[j].type \in {"copy", "rename_copy", "merge_markdown"}}}

extract_links(content) == LinksOf(content)

\* the links of every markdown entry of the index (all of them carry a suffix)
index_links ==
    UNION {UNION {extract_links(read_text(index[i].entries[j].ap)) :
                     j \in DOMAIN index[i].entries} :
              i \in {k \in DOMAIN index : IsMd(index[k].rel)}}

has_source(link) == \E i \in DOMAIN sources : exists(sources[i], link)

\* for s in sources: ... break  -- the first vault that holds the linked file
first_source(link) ==
    sources[CHOOSE i \in DOMAIN sources :
                /\ exists(sources[i], link)
                /\ \A j \in 1..(i - 1) : ~exists(sources[j], link)]

\* no relocation of a linked asset
rel_link_plain(link) == link

rel_link(link) == IF lower(link.ext) \in {".md", ".txt"} THEN link ELSE Res(link)

\* Distinct links have distinct destinations, so the order the loops visit the
\* links in does not change which pairs are collected.
linked_to_copy(acts) ==
    {[src |-> [vault |-> first_source(link), rel |-> link], dest |-> rel_link(link)] :
        link \in {l \in index_links : has_source(l) /\ rel_link(l) \notin planned_files(acts)}}

merge_settings_action ==
    [type |-> "merge_settings",
     sources |-> [i \in DOMAIN sources |-> sources[i]],
     dest |-> ".obsidian"]

\* linked_to_copy is a Python set: its iteration order is not fixed
build_plan_linked ==
    /\ pc = "linked"
    /\ \E ord \in SeqsOf(linked_to_copy(actions)) :
          actions' = actions
                     \o [i \in DOMAIN ord |->
                            [type |-> "copy", src |-> ord[i].src, dest |-> ord[i].dest]]
                     \o <<merge_settings_action>>
    /\ pc' = "dedup"
    /\ UNCHANGED <<guiVars, tagVars, indexVars, fs, obsidian_dirs, disk, link_in, link_out, target_fs, target_dirs, applyVars, ignore_patterns, index, excluded, notes,
                   warnings, replaced_files>>

----------------------------------------------------------------------------
(* build_plan: cross-name dedup (planner.py 240-288) *)

RECURSIVE uniq(_)
uniq(s) == IF s = <<>> THEN <<>>
           ELSE LET r == uniq(SelectSeq(s, LAMBDA x : x # Head(s)))
                IN <<Head(s)>> \o r

copy_actions(acts) == SelectSeq(acts, LAMBDA a : a.type = "copy")

\* dest_hashes: keys in first-insertion order, the value of the last assignment
dest_keys(acts) == uniq([i \in DOMAIN copy_actions(acts) |-> copy_actions(acts)[i].dest])

dest_hash(acts, d) ==
    LET c == copy_actions(acts)
        last == CHOOSE i \in DOMAIN c :
                    c[i].dest = d /\ \A j \in DOMAIN c : (j > i => c[j].dest # d)
    IN sha256(c[last].src)

\* hash_to_dests: keys in first-insertion order
hash_keys(acts) == uniq([i \in DOMAIN dest_keys(acts) |-> dest_hash(acts, dest_keys(acts)[i])])

\* every destination put into every group, whatever its hash
hash_to_dests_any(acts, h) == dest_keys(acts)

hash_to_dests(acts, h) == SelectSeq(dest_keys(acts), LAMBDA d : dest_hash(acts, d) = h)

MaxParts == 4

\* list.sort is stable: equal keys keep their order
RECURSIVE sort_from(_, _)
sort_from(dests, k) ==
    IF k > MaxParts THEN <<>>
    ELSE SelectSeq(dests, LAMBDA d : parts(d) = k) \o sort_from(dests, k + 1)

\* no sort: the first destination in action order is kept
sort_by_depth_none(dests) == dests

sort_by_depth(dests) == sort_from(dests, 1)

remove_at(s, i) == [j \in 1..(Len(s) - 1) |-> IF j < i THEN s[j] ELSE s[j + 1]]

first_copy_to(acts, d) ==
    CHOOSE i \in DOMAIN acts :
        /\ acts[i].type = "copy" /\ acts[i].dest = d
        /\ \A j \in 1..(i - 1) : ~(acts[j].type = "copy" /\ acts[j].dest = d)

\* every destination taken for a text file
is_text_file_any(d) == TRUE

is_text_file(d) == lower(d.ext) \in {".md", ".txt"}

\* d[k] = v on a dict kept as a sequence of <<key, value>> pairs
dict_set(d, k, v) ==
    IF \E i \in DOMAIN d : d[i][1] = k
    THEN [i \in DOMAIN d |-> IF d[i][1] = k THEN <<k, v>> ELSE d[i]]
    ELSE Append(d, <<k, v>>)

\* the body of "for d in dests[1:]"
dedup_one(st, d, kept) ==
    LET repl == dict_set(st.replaced, d, kept) IN
    IF ~\E i \in DOMAIN st.actions : st.actions[i].type = "copy" /\ st.actions[i].dest = d
    THEN [st EXCEPT !.replaced = repl]
    ELSE LET i == first_copy_to(st.actions, d) IN
         IF InRes(kept) /\ ~InRes(d)
         THEN [actions |-> remove_at(st.actions, i), notes |-> st.notes, replaced |-> repl]
         ELSE IF is_text_file(d)
         THEN [actions |-> [st.actions EXCEPT ![i] =
                               [type |-> "create_link_file", dest |-> d, link_to |-> kept]],
               notes |-> Append(st.notes,
                               [kind |-> "Deduplicated same content", rel |-> d, kept |-> kept]),
               replaced |-> repl]
         ELSE [actions |-> remove_at(st.actions, i),
               notes |-> Append(st.notes,
                               [kind |-> "Deduplicated non-text file", rel |-> d, kept |-> kept]),
               replaced |-> repl]

RECURSIVE dedup_group(_, _, _)
dedup_group(st, dups, kept) ==
    IF dups = <<>> THEN st
    ELSE dedup_group(dedup_one(st, Head(dups), kept), Tail(dups), kept)

RECURSIVE dedup_all(_, _, _)
dedup_all(st, acts0, hs) ==
    IF hs = <<>> THEN st
    ELSE LET dests == sort_by_depth(hash_to_dests(acts0, Head(hs)))
         IN dedup_all(IF Len(dests) > 1 THEN dedup_group(st, Tail(dests), dests[1]) ELSE st,
                      acts0, Tail(hs))

build_plan_dedup ==
    /\ pc = "dedup"
    /\ LET st == dedup_all([actions |-> actions, notes |-> notes, replaced |-> <<>>],
                           actions, hash_keys(actions))
       IN /\ actions' = st.actions
          /\ notes' = st.notes
          /\ replaced_files' = st.replaced
    /\ pc' = "repair"
    /\ UNCHANGED <<guiVars, tagVars, indexVars, fs, obsidian_dirs, disk, link_in, link_out, target_fs, target_dirs, applyVars, ignore_patterns, index, excluded,
                   warnings>>

----------------------------------------------------------------------------
(* build_plan: link repair (planner.py 292-321) *)

\* act.get("src"): only copy and rename_copy actions carry a src field
get_src(act) == IF act.type \in {"copy", "rename_copy"} THEN <<act.src>> ELSE <<>>

\* f"[[{old_rel}]]" in content or f"]({old_rel})" in content, for some replaced file
needs_update(content, replaced) ==
    \E i \in DOMAIN replaced : replaced[i][1] \in LinksOf(content)

repairs(acts, replaced) ==
    LET hit(a) == /\ a.type \in {"copy", "merge_markdown"}
                  /\ a.dest.ext = ".md"
                  /\ get_src(a) # <<>>
                  /\ exists(get_src(a)[1].vault, get_src(a)[1].rel)
                  /\ needs_update(read_text(get_src(a)[1]), replaced)
        hits == SelectSeq(acts, hit)
    IN [i \in DOMAIN hits |->
           [type |-> "update_file_links", file |-> hits[i].dest, link_updates |-> replaced]]

\* the update_file_links actions put right after the mkdir action
build_plan_repair_first ==
    /\ pc = "repair"
    /\ actions' = IF replaced_files # <<>>
                  THEN <<Head(actions)>> \o repairs(actions, replaced_files) \o Tail(actions)
                  ELSE actions
    /\ pc' = "done"
    /\ UNCHANGED <<guiVars, tagVars, indexVars, fs, obsidian_dirs, disk, link_in, link_out,
                   target_fs, target_dirs, applyVars, ignore_patterns, index, excluded, notes,
                   warnings, replaced_files>>

build_plan_repair ==
    /\ pc = "repair"
    /\ actions' = IF replaced_files # <<>> THEN actions \o repairs(actions, replaced_files)
                  ELSE actions
    /\ pc' = "done"
    /\ UNCHANGED <<guiVars, tagVars, indexVars, fs, obsidian_dirs, disk, link_in, link_out, target_fs, target_dirs, applyVars, ignore_patterns, index, excluded, notes,
                   warnings, replaced_files>>

----------------------------------------------------------------------------
(* Specification of the planner *)

\* the files a vault may hold: vaults 1 and 2 any path of Paths, vault 1 also u.txt,
\* vault 3 the two root files a.md and img.png (enough for a three-way collision)
Slots == ({1, 2} \X Paths) \cup {<<1, P_u>>} \cup ({3} \X {P_a, P_img})

FsChoices == UNION {[S -> Contents] : S \in {X \in SUBSET Slots : Cardinality(X) <= MaxFiles}}

InitPlan ==
    /\ fs \in FsChoices
    /\ obsidian_dirs = Vaults
    /\ disk = "any"
    /\ ignore_patterns \in IgnoreChoices
    /\ target_fs = << >>
    /\ target_dirs = {}
    /\ pc = "scan"
    /\ index = <<>>
    /\ excluded = <<>>
    /\ actions = <<>>
    /\ notes = <<>>
    /\ warnings = <<>>
    /\ replaced_files = <<>>
    /\ dry_run = FALSE
    /\ apc = "idle"
    /\ pos = 1
    /\ executed = <<>>
    /\ err = "none"
    /\ failed = {}
    /\ link_in = NoLink
    /\ link_out = NoLink
    /\ IndexIdle
    /\ TagIdle
    /\ GuiIdle

NextPlan ==
    \/ build_plan_scan
    \/ build_plan_resolve
    \/ build_plan_linked
    \/ build_plan_dedup
    \/ build_plan_repair

SpecPlan == InitPlan /\ [][NextPlan]_vars

----------------------------------------------------------------------------
(* apply.py: what a file of the target tree holds                          *)
(*   [kind "file", id, links]      bytes of content id, with the links     *)
(*                                 they hold (rewritten or not)            *)
(*   [kind "copy_failed", name]    the "# Copy Failed" placeholder         *)
(*   [kind "read_error", label]    the "# Error reading <label> file" body *)
(*   [kind "merged", parts]        the pieces written one after the other: *)
(*                                 divider, body a, divider, body b        *)
(*   [kind "divider", label]       "\n\n---\nFrom <label>\n---\n\n"          *)
(*   [kind "redirect", links]      "# Redirect" and one wiki link          *)
(*   [kind "report"]               merge_report.html                       *)

\* the text of content c; the source files of the model are valid UTF-8 with "\n"
\* line ends ("utf8_lf"), so read_text returns them as they are
raw(c) == [kind |-> "file", id |-> c, links |-> LinksOf(c), form |-> "utf8_lf"]

\* read_text(encoding="utf-8", errors="ignore") and then write_text: bytes that are
\* not UTF-8 are dropped and "\r\n" comes back as "\n"
decoded(content) ==
    IF content.kind = "file" THEN [content EXCEPT !.form = "utf8_lf"] ELSE content

starts_with_res(l) == Len(l.dir) >= 1 /\ l.dir[1] = "!res"

\* replace_link / replace_wiki on one link target (every target of the model
\* holds a '.', none is a URL or an anchor): !res/<basename>
update_link(l) ==
    IF lower(l.ext) \notin {".md", ".txt"} /\ ~starts_with_res(l)
    THEN [dir |-> <<"!res">>, stem |-> l.stem, ext |-> l.ext]
    ELSE l

update_links(content) ==
    IF content.kind = "file"
    THEN [content EXCEPT !.links = {update_link(l) : l \in @}]
    ELSE content

put(f, dest, c) == [x \in (DOMAIN f) \cup {dest} |-> IF x = dest THEN c ELSE f[x]]

Ancestors(dir) == {SubSeq(dir, 1, k) : k \in 0..Len(dir)}

\* the outcomes of the I/O calls of one action: directory creation, the reads of
\* the first and the second source, the first write, the fallback write(s)
IO == [mk : BOOLEAN, rd : BOOLEAN, rd_b : BOOLEAN, wr : BOOLEAN, wr2 : BOOLEAN, wr3 : BOOLEAN]

readable(src, ok) == ok /\ exists(src.vault, src.rel)

\* Path.mkdir(parents=True, exist_ok=True): fails only if it has to create something
mkdir_p(st, dir, io) ==
    IF Ancestors(dir) \subseteq st.dirs THEN st
    ELSE IF io.mk THEN [st EXCEPT !.dirs = @ \cup Ancestors(dir)]
    ELSE [st EXCEPT !.raised = "OSError", !.failed = @ \cup {"mkdir"}]

ensure_parent(st, dest, io) == mkdir_p(st, dest.dir, io)

\* _copy with the placeholder write outside any try: its failure leaves apply_plan
copy_file_unguarded(st0, src, dest, io) ==
    LET st == ensure_parent(st0, dest, io)
        content == IF lower(src.rel.ext) = ".md"
                   THEN update_links(raw(read_text(src)))
                   ELSE raw(read_text(src))
    IN IF st.raised # "none" THEN st
       ELSE IF readable(src, io.rd) /\ io.wr
       THEN [st EXCEPT !.fs = put(@, dest, content)]
       ELSE LET why == IF readable(src, io.rd) THEN "write" ELSE "read" IN
            IF io.wr2
            THEN [st EXCEPT !.fs = put(@, dest, [kind |-> "copy_failed", name |-> src.rel]),
                            !.failed = @ \cup {why}]
            ELSE [st EXCEPT !.raised = "OSError", !.failed = @ \cup {why, "fallback_write"}]

\* _copy without the placeholder: a failed copy is skipped
copy_file_no_placeholder(st0, src, dest, io) ==
    LET st == ensure_parent(st0, dest, io)
        content == IF lower(src.rel.ext) = ".md"
                   THEN update_links(raw(read_text(src)))
                   ELSE raw(read_text(src))
    IN IF st.raised # "none" THEN st
       ELSE IF readable(src, io.rd) /\ io.wr
       THEN [st EXCEPT !.fs = put(@, dest, content)]
       ELSE LET why == IF readable(src, io.rd) THEN "write" ELSE "read" IN
            [st EXCEPT !.failed = @ \cup {why}]

\* _copy
copy_file(st0, src, dest, io) ==
    LET st == ensure_parent(st0, dest, io)
        content == IF lower(src.rel.ext) = ".md"
                   THEN update_links(raw(read_text(src)))
                   ELSE raw(read_text(src))
    IN IF st.raised # "none" THEN st
       ELSE IF readable(src, io.rd) /\ io.wr
       THEN [st EXCEPT !.fs = put(@, dest, content)]
       ELSE LET why == IF readable(src, io.rd) THEN "write" ELSE "read" IN
            IF io.wr2
            THEN [st EXCEPT !.fs = put(@, dest, [kind |-> "copy_failed", name |-> src.rel]),
                            !.failed = @ \cup {why}]
            ELSE [st EXCEPT !.failed = @ \cup {why, "fallback_write"}]

with_from_name(dest, vault) == [dest EXCEPT !.stem = Append(@, from_suffix(vault))]

\* divider_a, divider_b
divider(vault) == [kind |-> "divider", label |-> vault]

\* _merge_markdown writing side b before side a
merge_markdown_b_first(st0, act, io) ==
    LET st == ensure_parent(st0, act.dest, io)
        a == IF readable(act.src_a, io.rd) THEN raw(read_text(act.src_a))
             ELSE [kind |-> "read_error", label |-> act.vault_a]
        b == IF readable(act.src_b, io.rd_b) THEN raw(read_text(act.src_b))
             ELSE [kind |-> "read_error", label |-> act.vault_b]
        rdfail == IF readable(act.src_a, io.rd) /\ readable(act.src_b, io.rd_b)
                  THEN {} ELSE {"read"}
        merged == [kind |-> "merged",
                   parts |-> <<divider(act.vault_b), update_links(b),
                               divider(act.vault_a), update_links(a)>>]
        dest_a == with_from_name(act.dest, act.vault_a)
        dest_b == with_from_name(act.dest, act.vault_b)
    IN IF st.raised # "none" THEN st
       ELSE IF io.wr
       THEN [st EXCEPT !.fs = put(@, act.dest, merged), !.failed = @ \cup rdfail]
       ELSE IF ~io.wr2
       THEN [st EXCEPT !.failed = @ \cup rdfail \cup {"write", "fallback_write"}]
       ELSE IF ~io.wr3
       THEN [st EXCEPT !.fs = put(@, dest_a, update_links(a)),
                       !.failed = @ \cup rdfail \cup {"write", "fallback_write"}]
       ELSE [st EXCEPT !.fs = put(put(@, dest_a, update_links(a)), dest_b, update_links(b)),
                       !.failed = @ \cup rdfail \cup {"write"}]

\* _merge_markdown
merge_markdown(st0, act, io) ==
    LET st == ensure_parent(st0, act.dest, io)
        a == IF readable(act.src_a, io.rd) THEN raw(read_text(act.src_a))
             ELSE [kind |-> "read_error", label |-> act.vault_a]
        b == IF readable(act.src_b, io.rd_b) THEN raw(read_text(act.src_b))
             ELSE [kind |-> "read_error", label |-> act.vault_b]
        rdfail == IF readable(act.src_a, io.rd) /\ readable(act.src_b, io.rd_b)
                  THEN {} ELSE {"read"}
        merged == [kind |-> "merged",
                   parts |-> <<divider(act.vault_a), update_links(a),
                               divider(act.vault_b), update_links(b)>>]
        dest_a == with_from_name(act.dest, act.vault_a)
        dest_b == with_from_name(act.dest, act.vault_b)
    IN IF st.raised # "none" THEN st
       ELSE IF io.wr
       THEN [st EXCEPT !.fs = put(@, act.dest, merged), !.failed = @ \cup rdfail]
       ELSE IF ~io.wr2
       THEN [st EXCEPT !.failed = @ \cup rdfail \cup {"write", "fallback_write"}]
       ELSE IF ~io.wr3
       THEN [st EXCEPT !.fs = put(@, dest_a, update_links(a)),
                       !.failed = @ \cup rdfail \cup {"write", "fallback_write"}]
       ELSE [st EXCEPT !.fs = put(put(@, dest_a, update_links(a)), dest_b, update_links(b)),
                       !.failed = @ \cup rdfail \cup {"write"}]

\* _merge_settings
merge_settings(st, io) == mkdir_p(st, <<".obsidian">>, io)

\* the create_link_file branch
create_link_file(st0, act, io) ==
    LET st == ensure_parent(st0, act.dest, io) IN
    IF st.raised # "none" THEN st
    ELSE IF io.wr
    THEN [st EXCEPT !.fs = put(@, act.dest, [kind |-> "redirect", links |-> {act.link_to}])]
    ELSE [st EXCEPT !.raised = "OSError", !.failed = @ \cup {"stub_write"}]

\* content.replace("[[old]]", "[[new]]") and content.replace("](old)", "](new)")
replace_link(content, old, new) ==
    LET sub(links) == IF old \in links THEN (links \ {old}) \cup {new} ELSE links IN
    IF content.kind \in {"file", "redirect"} THEN [content EXCEPT !.links = sub(@)]
    ELSE IF content.kind = "merged"
    THEN LET piece(x) == IF x.kind = "file" THEN [x EXCEPT !.links = sub(@)] ELSE x
         IN [content EXCEPT !.parts = [i \in DOMAIN @ |-> piece(@[i])]]
    ELSE content

RECURSIVE replace_all(_, _)
replace_all(content, updates) ==
    IF updates = <<>> THEN content
    ELSE replace_all(replace_link(content, Head(updates)[1], Head(updates)[2]), Tail(updates))

\* old_wiki in content or old_md in content
has_link(content, l) ==
    CASE content.kind \in {"file", "redirect"} -> l \in content.links
      [] content.kind = "merged" ->
            \E i \in DOMAIN content.parts :
                content.parts[i].kind = "file" /\ l \in content.parts[i].links
      [] OTHER -> FALSE

RECURSIVE any_replaced(_, _)
\* updated: some pair found its old link in the content as rewritten so far
any_replaced(content, updates) ==
    IF updates = <<>> THEN FALSE
    ELSE \/ has_link(content, Head(updates)[1])
         \/ any_replaced(replace_link(content, Head(updates)[1], Head(updates)[2]),
                         Tail(updates))

\* a path outside target_root: relative_to raises ValueError
P_out == [dir |-> <<"/elsewhere">>, stem |-> <<"x">>, ext |-> ".png"]

under_target_root(path) == path.dir = <<>> \/ path.dir[1] # "/elsewhere"

relative_to_fails(updates) ==
    \E i \in DOMAIN updates :
        ~under_target_root(updates[i][1]) \/ ~under_target_root(updates[i][2])

\* the update_file_links branch with the write-back not guarded by "if updated"
update_file_links_always_writes(st, act, io) ==
    LET content == decoded(st.fs[act.file])
        new == replace_all(content, act.link_updates) IN
    IF ~io.rd THEN [st EXCEPT !.failed = @ \cup {"read"}]
    ELSE IF relative_to_fails(act.link_updates) THEN [st EXCEPT !.failed = @ \cup {"replace"}]
    ELSE IF io.wr THEN [st EXCEPT !.fs = put(@, act.file, new)]
    ELSE [st EXCEPT !.failed = @ \cup {"write"}]

\* the update_file_links branch (the file exists)
update_file_links(st, act, io) ==
    LET content == decoded(st.fs[act.file])
        new == replace_all(content, act.link_updates) IN
    IF ~io.rd THEN [st EXCEPT !.failed = @ \cup {"read"}]
    ELSE IF relative_to_fails(act.link_updates) THEN [st EXCEPT !.failed = @ \cup {"replace"}]
    ELSE IF ~any_replaced(content, act.link_updates) THEN st
    ELSE IF io.wr THEN [st EXCEPT !.fs = put(@, act.file, new)]
    ELSE [st EXCEPT !.failed = @ \cup {"write"}]

----------------------------------------------------------------------------
(* _update_links (apply.py 29-85) on one link.  A link target (or one half *)
(* of an aliased wiki link) is a record                                    *)
(*   [scheme, anchor, res, dir, stem, ext]                                 *)
(* for the string  <scheme>[#][!res/]<dir>/<stem><ext> : scheme is "" or   *)
(* a URL scheme with its "://", anchor says the string starts with '#',    *)
(* res that it starts with "!res/", ext is the suffix of the last          *)
(* component ("" if it has none).                                          *)

DottedSegments == {"..", "h.org", "v1.2"}

\* '.' in link
has_dot(t) == t.ext # "" \/ \E i \in DOMAIN t.dir : t.dir[i] \in DottedSegments

\* link.startswith(('http://', 'https://', '#'))
starts_with_url_or_anchor(t) == t.scheme \in {"http://", "https://"} \/ t.anchor

\* '.' in link and Path(link).suffix.lower() not in ('.md', '.txt')
non_text_link(t) == has_dot(t) /\ lower(t.ext) \notin {".md", ".txt"}

\* f"!res/{Path(link).name}"
res_of(t) == [scheme |-> "", anchor |-> FALSE, res |-> TRUE, dir |-> <<>>,
              stem |-> t.stem, ext |-> t.ext]

\* replace_link: the callback for [label](target)
replace_md_link(m) ==
    IF /\ ~starts_with_url_or_anchor(m.target)
       /\ non_text_link(m.target)
       /\ ~m.target.res
    THEN [m EXCEPT !.target = res_of(@)]
    ELSE m

\* replace_wiki with the link half kept on the side of '|' it came from
replace_wiki_in_place(m) ==
    IF Len(m.halves) = 2
    THEN LET first == non_text_link(m.halves[1])
             link  == IF first THEN m.halves[1] ELSE m.halves[2]
         IN IF non_text_link(link) /\ ~link.res
            THEN IF first THEN [m EXCEPT !.halves = <<res_of(link), m.halves[2]>>]
                          ELSE [m EXCEPT !.halves = <<m.halves[1], res_of(link)>>]
            ELSE m
    ELSE LET link == m.halves[1]
         IN IF non_text_link(link) /\ ~link.res
            THEN [m EXCEPT !.halves = <<res_of(link)>>]
            ELSE m

\* replace_wiki: the callback for [[...]]
replace_wiki(m) ==
    IF Len(m.halves) = 2
    THEN LET first == non_text_link(m.halves[1])
             link  == IF first THEN m.halves[1] ELSE m.halves[2]
             alias == IF first THEN m.halves[2] ELSE m.halves[1]
         IN IF non_text_link(link) /\ ~link.res
            THEN [m EXCEPT !.halves = <<alias, res_of(link)>>]
            ELSE m
    ELSE LET link == m.halves[1]
         IN IF non_text_link(link) /\ ~link.res
            THEN [m EXCEPT !.halves = <<res_of(link)>>]
            ELSE m

\* re.sub(r'\[([^\]]+)\]\(([^)]+)\)', replace_link, content) on one match
update_links_md ==
    /\ link_in.kind = "md" /\ link_out = NoLink
    /\ link_out' = replace_md_link(link_in)
    /\ UNCHANGED <<guiVars, tagVars, indexVars, fs, obsidian_dirs, disk, target_fs, target_dirs, planVars, applyVars, link_in>>

\* re.sub(r'\[\[([^\]]+)\]\]', replace_wiki, content) on one match
update_links_wiki ==
    /\ link_in.kind = "wiki" /\ link_out = NoLink
    /\ link_out' = replace_wiki(link_in)
    /\ UNCHANGED <<guiVars, tagVars, indexVars, fs, obsidian_dirs, disk, target_fs, target_dirs, planVars, applyVars, link_in>>

LocalTargets ==
    [scheme : {""}, anchor : {FALSE}, res : {FALSE},
     dir : {<<>>, <<"..", "files">>, <<"v1.2">>}, stem : {"img"},
     ext : {"", ".png", ".md", ".MD", ".txt"}]

ResTargets ==
    [scheme : {""}, anchor : {FALSE}, res : {TRUE}, dir : {<<>>, <<"files">>},
     stem : {"img"}, ext : {".png", ".md"}]

UrlTargets ==
    [scheme : {"https://", "ftp://"}, anchor : {FALSE}, res : {FALSE}, dir : {<<"h.org">>},
     stem : {"img"}, ext : {"", ".png"}]

AnchorTargets ==
    [scheme : {""}, anchor : {TRUE}, res : {FALSE}, dir : {<<>>}, stem : {"img"},
     ext : {"", ".png"}]

LinkTargets == LocalTargets \cup ResTargets \cup UrlTargets \cup AnchorTargets

\* the other half of an aliased wiki link: a plain label, or something that looks
\* like a file name
Aliases ==
    [scheme : {""}, anchor : {FALSE}, res : {FALSE}, dir : {<<>>}, stem : {"Alias"},
     ext : {"", ".png", ".md"}]

LinkChoices ==
    [kind : {"md"}, label : {"Alias"}, target : LinkTargets]
    \cup {[kind |-> "wiki", halves |-> <<t>>] : t \in LinkTargets}
    \cup {[kind |-> "wiki", halves |-> <<t, a>>] : t \in LinkTargets, a \in Aliases}
    \cup {[kind |-> "wiki", halves |-> <<a, t>>] : t \in LinkTargets, a \in Aliases}

InitLinks ==
    /\ link_in \in LinkChoices
    /\ link_out = NoLink
    /\ IndexIdle
    /\ TagIdle
    /\ GuiIdle
    /\ fs = << >>
    /\ obsidian_dirs = {}
    /\ disk = "ok"
    /\ ignore_patterns = <<>>
    /\ target_fs = << >>
    /\ target_dirs = {}
    /\ pc = "done"
    /\ index = <<>>
    /\ excluded = <<>>
    /\ actions = <<>>
    /\ notes = <<>>
    /\ warnings = <<>>
    /\ replaced_files = <<>>
    /\ dry_run = FALSE
    /\ apc = "returned"
    /\ pos = 1
    /\ executed = <<>>
    /\ err = "none"
    /\ failed = {}

NextLinks ==
    \/ update_links_md
    \/ update_links_wiki

SpecLinks == InitLinks /\ [][NextLinks]_vars

----------------------------------------------------------------------------
(* apply_plan (apply.py 305-465) *)

Recognized == {"mkdir", "copy", "rename_copy", "merge_markdown", "merge_settings",
               "create_link_file", "update_file_links"}

P_report == [dir |-> <<>>, stem |-> <<"merge_report">>, ext |-> ".html"]

cur == actions[pos]

at(types) == apc = "loop" /\ pos <= Len(actions) /\ cur.type \in types

here == [fs |-> target_fs, dirs |-> target_dirs, raised |-> "none", failed |-> failed]

\* the files the writes of the current step go to: the first write and the two
\* fallback writes
write_dests ==
    IF apc = "loop" /\ pos <= Len(actions)
    THEN CASE cur.type \in {"copy", "rename_copy", "create_link_file"} ->
                 <<cur.dest, cur.dest, cur.dest>>
           [] cur.type = "merge_markdown" ->
                 <<cur.dest, with_from_name(cur.dest, cur.vault_a),
                   with_from_name(cur.dest, cur.vault_b)>>
           [] cur.type = "update_file_links" -> <<cur.file, cur.file, cur.file>>
           [] OTHER -> <<P_report, P_report, P_report>>
    ELSE <<P_report, P_report, P_report>>

\* under a directory without write permission no file can be created; a file that
\* is already there can be written if its own mode allows it
may_write(d) == IF d \in DOMAIN target_fs THEN BOOLEAN ELSE {FALSE}

\* the outcomes the target tree's condition allows: all of them, success only, or
\* no directory and no file created under the target
IOs == CASE disk = "ok" -> {io \in IO : io.mk /\ io.rd /\ io.rd_b /\ io.wr /\ io.wr2 /\ io.wr3}
         [] disk = "readonly" ->
                {io \in IO : /\ ~io.mk /\ io.rd /\ io.rd_b
                             /\ io.wr \in may_write(write_dests[1])
                             /\ io.wr2 \in may_write(write_dests[2])
                             /\ io.wr3 \in may_write(write_dests[3])}
         [] OTHER -> IO

\* the loop goes on to the next action, or the exception leaves apply_plan
finish(st) ==
    /\ target_fs' = st.fs
    /\ target_dirs' = st.dirs
    /\ failed' = st.failed
    /\ IF st.raised = "none"
       THEN /\ pos' = pos + 1
            /\ executed' = Append(executed, pos)
            /\ UNCHANGED <<apc, err>>
       ELSE /\ apc' = "raised"
            /\ err' = st.raised
            /\ UNCHANGED <<pos, executed>>
    /\ UNCHANGED <<guiVars, tagVars, indexVars, fs, obsidian_dirs, disk, link_in, link_out, dry_run, planVars>>

apply_start ==
    /\ apc = "idle"
    /\ pc = "done"
    /\ apc' = "loop"
    /\ UNCHANGED <<guiVars, tagVars, indexVars, fs, obsidian_dirs, disk, link_in, link_out, target_fs, target_dirs, planVars, dry_run, pos, executed, err, failed>>

\* the mkdir branch without "if dry_run: continue"
apply_mkdir_always ==
    /\ at({"mkdir"})
    /\ \E io \in IOs : finish(mkdir_p(here, <<>>, io))

apply_mkdir ==
    /\ at({"mkdir"})
    /\ IF dry_run THEN finish(here)
       ELSE \E io \in IOs : finish(mkdir_p(here, <<>>, io))

apply_copy ==
    /\ at({"copy", "rename_copy"})
    /\ IF dry_run THEN finish(here)
       ELSE \E io \in IOs : finish(copy_file(here, cur.src, cur.dest, io))

apply_merge_markdown ==
    /\ at({"merge_markdown"})
    /\ IF dry_run THEN finish(here)
       ELSE \E io \in IOs : finish(merge_markdown(here, cur, io))

apply_merge_settings ==
    /\ at({"merge_settings"})
    /\ IF dry_run THEN finish(here)
       ELSE \E io \in IOs : finish(merge_settings(here, io))

apply_create_link_file ==
    /\ at({"create_link_file"})
    /\ IF dry_run THEN finish(here)
       ELSE \E io \in IOs : finish(create_link_file(here, cur, io))

apply_update_file_links ==
    /\ at({"update_file_links"})
    /\ IF ~dry_run /\ cur.file \in DOMAIN target_fs
       THEN \E io \in IOs : finish(update_file_links(here, cur, io))
       ELSE finish(here)

\* an unknown type skipped instead of raised
apply_unknown_skipped ==
    /\ apc = "loop" /\ pos <= Len(actions) /\ cur.type \notin Recognized
    /\ finish(here)

apply_unknown ==
    /\ apc = "loop" /\ pos <= Len(actions) /\ cur.type \notin Recognized
    /\ apc' = "raised"
    /\ err' = "ValueError"
    /\ UNCHANGED <<guiVars, tagVars, indexVars, fs, obsidian_dirs, disk, link_in, link_out, target_fs, target_dirs, planVars, dry_run, pos, executed, failed>>

\* after the loop: the statistics and merge_report.html
\* the report's write failure swallowed
apply_report_quiet ==
    /\ apc = "loop" /\ pos > Len(actions)
    /\ IF ~dry_run /\ <<>> \in target_dirs
       THEN \E io \in IOs :
              /\ target_fs' = IF io.wr THEN put(target_fs, P_report, [kind |-> "report"])
                              ELSE target_fs
              /\ apc' = "returned"
              /\ UNCHANGED <<err, failed>>
       ELSE /\ apc' = "returned"
            /\ UNCHANGED <<target_fs, err, failed>>
    /\ UNCHANGED <<guiVars, tagVars, indexVars, fs, obsidian_dirs, disk, link_in, link_out, target_dirs, planVars, dry_run, pos, executed>>

apply_report ==
    /\ apc = "loop" /\ pos > Len(actions)
    /\ IF ~dry_run /\ <<>> \in target_dirs
       THEN \E io \in IOs :
              IF io.wr
              THEN /\ target_fs' = put(target_fs, P_report, [kind |-> "report"])
                   /\ apc' = "returned"
                   /\ UNCHANGED <<err, failed>>
              ELSE /\ apc' = "raised"
                   /\ err' = "OSError"
                   /\ failed' = failed \cup {"report_write"}
                   /\ UNCHANGED target_fs
       ELSE /\ apc' = "returned"
            /\ UNCHANGED <<target_fs, err, failed>>
    /\ UNCHANGED <<guiVars, tagVars, indexVars, fs, obsidian_dirs, disk, link_in, link_out, target_dirs, planVars, dry_run, pos, executed>>

NextApply ==
    \/ apply_start
    \/ apply_mkdir
    \/ apply_copy
    \/ apply_merge_markdown
    \/ apply_merge_settings
    \/ apply_create_link_file
    \/ apply_update_file_links
    \/ apply_unknown
    \/ apply_report

----------------------------------------------------------------------------
(* Specification of the executor: apply_plan on any plan of at most        *)
(* MaxPlanLen actions over ApplyActions, hand-edited plans included        *)

MaxPlanLen == 3

P_a_B == with_vault_name(Res(P_img), "B")

ApplyActions ==
    { [type |-> "mkdir", path |-> "."],
      [type |-> "copy", src |-> [vault |-> 1, rel |-> P_a], dest |-> P_a],
      [type |-> "rename_copy", src |-> [vault |-> 2, rel |-> P_img], dest |-> P_a_B],
      [type |-> "merge_markdown", src_a |-> [vault |-> 1, rel |-> P_a],
       src_b |-> [vault |-> 2, rel |-> P_a], dest |-> P_a, vault_a |-> "A", vault_b |-> "B"],
      [type |-> "merge_settings", sources |-> sources, dest |-> ".obsidian"],
      [type |-> "create_link_file", dest |-> P_b, link_to |-> P_a],
      [type |-> "update_file_links", file |-> P_a, link_updates |-> <<<<P_b, P_a>>>>],
      [type |-> "delete"] }

PlanChoices == UNION {[1..n -> ApplyActions] : n \in 0..MaxPlanLen}

\* the source vaults the plans refer to: A/a.md is a note with links, B/a.md is
\* missing, B/img.png is an image
ApplyFs == (<<1, P_a>> :> 3) @@ (<<2, P_img>> :> 1)

InitApply ==
    /\ fs = ApplyFs
    /\ obsidian_dirs = Vaults
    /\ disk = "any"
    /\ ignore_patterns = <<>>
    /\ target_fs = << >>
    /\ target_dirs \in {{}, {<<>>}}
    /\ pc = "done"
    /\ index = <<>>
    /\ excluded = <<>>
    /\ actions \in PlanChoices
    /\ notes = <<>>
    /\ warnings = <<>>
    /\ replaced_files = <<>>
    /\ dry_run \in BOOLEAN
    /\ apc = "idle"
    /\ pos = 1
    /\ executed = <<>>
    /\ err = "none"
    /\ failed = {}
    /\ link_in = NoLink
    /\ link_out = NoLink
    /\ IndexIdle
    /\ TagIdle
    /\ GuiIdle

SpecApply == InitApply /\ [][NextApply]_vars

----------------------------------------------------------------------------
(* Specification of link repair in the executor: apply_plan on a plan that *)
(* starts with an update_file_links action for a.md, which may already be  *)
(* in the target with any encoding and line ends, followed by one action   *)
(* of ApplyActions                                                         *)

MaxUpdates == 2

RepairPairs == {P_img, P_b, P_out} \X {P_b, Res(P_img)}

RepairUpdates == UNION {[1..n -> RepairPairs] : n \in 0..MaxUpdates}

\* a.md as an earlier run or the user left it
RepairFiles ==
    [kind : {"file"}, id : {3}, links : SUBSET {P_img, P_b},
     form : {"utf8_lf", "crlf", "undecodable"}]

InitRepair ==
    /\ fs = ApplyFs
    /\ obsidian_dirs = Vaults
    /\ disk = "any"
    /\ ignore_patterns = <<>>
    /\ target_fs \in {<< >>} \cup {(P_a :> f) : f \in RepairFiles}
    /\ target_dirs = {<<>>}
    /\ pc = "done"
    /\ index = <<>>
    /\ excluded = <<>>
    /\ actions \in {<<[type |-> "update_file_links", file |-> P_a, link_updates |-> u], a>> :
                       u \in RepairUpdates, a \in ApplyActions}
    /\ notes = <<>>
    /\ warnings = <<>>
    /\ replaced_files = <<>>
    /\ dry_run \in BOOLEAN
    /\ apc = "idle"
    /\ pos = 1
    /\ executed = <<>>
    /\ err = "none"
    /\ failed = {}
    /\ link_in = NoLink
    /\ link_out = NoLink
    /\ IndexIdle
    /\ TagIdle
    /\ GuiIdle

SpecRepair == InitRepair /\ [][NextApply]_vars

----------------------------------------------------------------------------
(* Specification of a whole merge: build_plan, then apply_plan (dry_run    *)
(* false) on the plan it returned, the target tree being writable ("ok")   *)
(* or not writable ("readonly": no directory can be created and no file    *)
(* written under the target root)                                          *)

MaxMergeFiles == 4

MergeSlots == {<<1, P_a>>, <<1, P_b>>, <<1, P_txt>>, <<1, P_img>>,
               <<2, P_a>>, <<2, P_img>>, <<3, P_img>>}

MergeFsChoices ==
    UNION {[S -> Contents] : S \in {X \in SUBSET MergeSlots : Cardinality(X) <= MaxMergeFiles}}

\* the target before the merge: missing, an empty directory, or a directory that
\* holds .obsidian/
MergeTargets == {{}, {<<>>}, {<<>>, <<".obsidian">>}}

\* the files an earlier merge into the same target has left there
MergeLeftovers == [d \in {P_a, P_report} |-> [kind |-> "old"]]

InitMerge ==
    /\ fs \in MergeFsChoices
    /\ obsidian_dirs = Vaults
    /\ ignore_patterns \in IgnoreChoices
    /\ target_dirs \in MergeTargets
    /\ disk \in (IF target_dirs = {} THEN {"ok"} ELSE {"ok", "readonly"})
    /\ target_fs \in (IF disk = "readonly" /\ <<".obsidian">> \in target_dirs
                       THEN {<< >>, MergeLeftovers} ELSE {<< >>})
    /\ pc = "scan"
    /\ index = <<>>
    /\ excluded = <<>>
    /\ actions = <<>>
    /\ notes = <<>>
    /\ warnings = <<>>
    /\ replaced_files = <<>>
    /\ dry_run = FALSE
    /\ apc = "idle"
    /\ pos = 1
    /\ executed = <<>>
    /\ err = "none"
    /\ failed = {}
    /\ link_in = NoLink
    /\ link_out = NoLink
    /\ IndexIdle
    /\ TagIdle
    /\ GuiIdle

\* build_plan never emits an action of unrecognized type
NextMerge ==
    \/ build_plan_scan
    \/ build_plan_resolve
    \/ build_plan_linked
    \/ build_plan_dedup
    \/ build_plan_repair
    \/ apply_start
    \/ apply_mkdir
    \/ apply_copy
    \/ apply_merge_markdown
    \/ apply_merge_settings
    \/ apply_create_link_file
    \/ apply_update_file_links
    \/ apply_report

SpecMerge == InitMerge /\ [][NextMerge]_vars

----------------------------------------------------------------------------
(* Specification of the planner on source directories that may lack        *)
(* .obsidian                                                               *)

ExpandSlots == {<<1, P_a>>, <<1, P_img>>, <<2, P_a>>, <<2, P_img>>, <<2, P_txt>>}

ExpandFsChoices ==
    UNION {[S -> Contents] : S \in {X \in SUBSET ExpandSlots : Cardinality(X) <= MaxFiles}}

InitExpand ==
    /\ fs \in ExpandFsChoices
    /\ obsidian_dirs \in SUBSET Vaults
    /\ disk = "any"
    /\ ignore_patterns \in IgnoreChoices
    /\ target_fs = << >>
    /\ target_dirs = {}
    /\ pc = "scan"
    /\ index = <<>>
    /\ excluded = <<>>
    /\ actions = <<>>
    /\ notes = <<>>
    /\ warnings = <<>>
    /\ replaced_files = <<>>
    /\ dry_run = FALSE
    /\ apc = "idle"
    /\ pos = 1
    /\ executed = <<>>
    /\ err = "none"
    /\ failed = {}
    /\ link_in = NoLink
    /\ link_out = NoLink
    /\ IndexIdle
    /\ TagIdle
    /\ GuiIdle

SpecExpand == InitExpand /\ [][NextPlan]_vars

----------------------------------------------------------------------------
(* The vault indexer (indexer.py).  A file of the vault is a record          *)
(* [path, mtime]: path a path record, mtime the pair <<year, month>> of its   *)
(* modification time.  The day of the month is not part of the universe, so   *)
(* the files of one month bucket all have the same date and the stable sort   *)
(* by date at the end of collect_files leaves them in insertion order.        *)
(* A month key "yyyy_mm" is the pair <<year, mm>>, mm the two digits that     *)
(* strftime('%m') gives.  An index file name is [kind, key]: "MONTH" with a   *)
(* month key, "YEAR" with a year.  Failing writes are outside the model.      *)

MaxVaultFiles == 3

I_n1 == [dir |-> <<>>, stem |-> <<"n1">>, ext |-> ".md"]
I_n2 == [dir |-> <<"d">>, stem |-> <<"n2">>, ext |-> ".md"]
I_monthly == [dir |-> <<>>, stem |-> <<"MONTHLY">>, ext |-> ".md"]
I_broken == [dir |-> <<>>, stem |-> <<"broken">>, ext |-> ".md"]

IndexPaths == {I_n1, I_n2, P_img, I_monthly, I_broken, P_app}

Mtimes == {<<2023, 11>>, <<2024, 2>>, <<2024, 11>>}

\* TEXT_EXTENSIONS
indexer_is_text_file(path) == lower(path.ext) \in {".md", ".txt", ".json"}

\* any(pattern in file_path.name for pattern in skip_patterns)
name_has_skip_pattern(path) == path.stem[1] \in {"MONTHLY"}

\* '.obsidian' in file_path.parts
in_obsidian(path) == \E i \in DOMAIN path.dir : path.dir[i] = ".obsidian"

\* file_path.stat() raises OSError (a dangling symlink)
stat_fails(path) == path = I_broken

\* the file starts with a YAML frontmatter block
has_frontmatter(path) == path = I_n1

\* mtime.strftime('%m')
strftime_m(month) == <<month \div 10, month % 10>>

\* f"{year}_{mtime.strftime('%m')}"
month_key_of(mtime) == <<mtime[1], strftime_m(mtime[2])>>

\* str < str on digit strings
str_less(a, b) ==
    \/ \E i \in DOMAIN a \cap DOMAIN b : a[i] < b[i] /\ \A j \in 1..(i - 1) : a[j] = b[j]
    \/ Len(a) < Len(b) /\ \A j \in DOMAIN a : a[j] = b[j]

\* (x.split("_")[0], x.split("_")[1]) compared as a tuple of strings; the year
\* strings of the universe all have four digits
key_less(k1, k2) == k1[1] < k2[1] \/ (k1[1] = k2[1] /\ str_less(k1[2], k2[2]))

\* file_data[year][month_key][category].append(file_info): a new year and a new
\* month go to the end of their dict
add_file(data, year, key, cat, info) ==
    LET new_month == [key |-> key,
                      text_files |-> IF cat = "text" THEN <<info>> ELSE <<>>,
                      media_files |-> IF cat = "media" THEN <<info>> ELSE <<>>]
        into_month(m) == IF cat = "text" THEN [m EXCEPT !.text_files = Append(@, info)]
                         ELSE [m EXCEPT !.media_files = Append(@, info)]
        into_year(y) ==
            IF \E j \in DOMAIN y.months : y.months[j].key = key
            THEN [y EXCEPT !.months = [j \in DOMAIN @ |->
                                          IF @[j].key = key THEN into_month(@[j]) ELSE @[j]]]
            ELSE [y EXCEPT !.months = Append(@, new_month)]
    IN IF \E i \in DOMAIN data : data[i].year = year
       THEN [i \in DOMAIN data |-> IF data[i].year = year THEN into_year(data[i]) ELSE data[i]]
       ELSE Append(data, [year |-> year, months |-> <<new_month>>])

\* the body of the rglob loop
collect_file(data, f) ==
    IF name_has_skip_pattern(f.path) \/ in_obsidian(f.path) \/ stat_fails(f.path)
    THEN data
    ELSE add_file(data, f.mtime[1], month_key_of(f.mtime),
                  IF indexer_is_text_file(f.path) THEN "text" ELSE "media",
                  [path |-> f.path, date |-> f.mtime])

RECURSIVE collect_files(_, _)
collect_files(data, files) ==
    IF files = <<>> THEN data
    ELSE collect_files(collect_file(data, Head(files)), Tail(files))

\* the months of a year in the order the dict holds them
sorted_months_unsorted(keys) == keys

RECURSIVE sorted_months(_)
\* sorted(year_data.keys(), key=...)
sorted_months(keys) ==
    IF keys = <<>> THEN <<>>
    ELSE LET i == CHOOSE i \in DOMAIN keys :
                      /\ \A j \in DOMAIN keys : ~key_less(keys[j], keys[i])
                      /\ \A j \in 1..(i - 1) : key_less(keys[i], keys[j])
         IN <<keys[i]>> \o sorted_months([j \in 1..(Len(keys) - 1) |->
                                           IF j < i THEN keys[j] ELSE keys[j + 1]])

paths_of(infos) == [i \in DOMAIN infos |-> infos[i].path]

\* generate_monthly_index: the file name and what is written to it
monthly_index(month) ==
    [name |-> [kind |-> "MONTH", key |-> month.key],
     content |-> [text |-> paths_of(month.text_files),
                  media |-> paths_of(month.media_files)]]

\* generate_yearly_index: the file name and what is written to it
yearly_index(y) ==
    LET keys == sorted_months([j \in DOMAIN y.months |-> y.months[j].key])
    IN [name |-> [kind |-> "YEAR", key |-> y.year],
        content |-> [links |-> [i \in DOMAIN keys |-> [kind |-> "MONTH", key |-> keys[i]]]]]

\* the entry without the check for existing index files
generate_indexes_start_unchecked ==
    /\ ipc = "start"
    /\ ipc' = "collect"
    /\ UNCHANGED <<guiVars, tagVars, fs, obsidian_dirs, disk, target_fs, target_dirs, planVars, applyVars,
                   link_in, link_out, vault_files, existing_files, overwrite, update_tags,
                   file_data, tagged, index_writes>>

\* the entry: output_dir.mkdir, the check for existing index files
generate_indexes_start ==
    /\ ipc = "start"
    /\ ipc' = IF existing_files # {} /\ ~overwrite THEN "refused" ELSE "collect"
    /\ UNCHANGED <<guiVars, tagVars, fs, obsidian_dirs, disk, target_fs, target_dirs, planVars, applyVars,
                   link_in, link_out, vault_files, existing_files, overwrite, update_tags,
                   file_data, tagged, index_writes>>

\* collect_files, the return when nothing was found, the optional tag update
generate_indexes_collect ==
    /\ ipc = "collect"
    /\ LET data == collect_files(<<>>, vault_files)
           texts == UNION {UNION {{y.months[j].text_files[k].path :
                                      k \in DOMAIN y.months[j].text_files} :
                                   j \in DOMAIN y.months} :
                           y \in {data[i] : i \in DOMAIN data}}
       IN /\ file_data' = data
          /\ tagged' = IF data # <<>> /\ update_tags
                       THEN {q \in texts : lower(q.ext) = ".md" /\ has_frontmatter(q)}
                       ELSE {}
          /\ ipc' = IF data = <<>> THEN "nothing" ELSE "monthly"
    /\ UNCHANGED <<guiVars, tagVars, fs, obsidian_dirs, disk, target_fs, target_dirs, planVars, applyVars,
                   link_in, link_out, vault_files, existing_files, overwrite, update_tags,
                   index_writes>>

\* the loop over the months of every year
generate_indexes_monthly ==
    /\ ipc = "monthly"
    /\ index_writes' =
          index_writes
          \o Flatten([i \in DOMAIN file_data |->
                 LET ms == SelectSeq(file_data[i].months,
                               LAMBDA m : m.text_files # <<>> \/ m.media_files # <<>>)
                 IN [j \in DOMAIN ms |-> monthly_index(ms[j])]])
    /\ ipc' = "yearly"
    /\ UNCHANGED <<guiVars, tagVars, fs, obsidian_dirs, disk, target_fs, target_dirs, planVars, applyVars,
                   link_in, link_out, vault_files, existing_files, overwrite, update_tags,
                   file_data, tagged>>

\* the loop over the years
generate_indexes_yearly ==
    /\ ipc = "yearly"
    /\ index_writes' = index_writes \o [i \in DOMAIN file_data |-> yearly_index(file_data[i])]
    /\ ipc' = "done"
    /\ UNCHANGED <<guiVars, tagVars, fs, obsidian_dirs, disk, target_fs, target_dirs, planVars, applyVars,
                   link_in, link_out, vault_files, existing_files, overwrite, update_tags,
                   file_data, tagged>>

\* the vaults: up to MaxVaultFiles files in any rglob order, each with any mtime
VaultChoices ==
    UNION {{f \in [1..n -> [path : IndexPaths, mtime : Mtimes]] :
               \A i, j \in 1..n : i # j => f[i].path # f[j].path} : n \in 0..MaxVaultFiles}

InitIndex ==
    /\ vault_files \in VaultChoices
    /\ existing_files \in {{}, {[kind |-> "YEAR", key |-> 2023]}}
    /\ overwrite \in BOOLEAN
    /\ update_tags \in BOOLEAN
    /\ file_data = <<>>
    /\ tagged = {}
    /\ index_writes = <<>>
    /\ ipc = "start"
    /\ TagIdle
    /\ GuiIdle
    /\ link_in = NoLink
    /\ link_out = NoLink
    /\ fs = << >>
    /\ obsidian_dirs = {}
    /\ disk = "ok"
    /\ ignore_patterns = <<>>
    /\ target_fs = << >>
    /\ target_dirs = {}
    /\ pc = "done"
    /\ index = <<>>
    /\ excluded = <<>>
    /\ actions = <<>>
    /\ notes = <<>>
    /\ warnings = <<>>
    /\ replaced_files = <<>>
    /\ dry_run = FALSE
    /\ apc = "returned"
    /\ pos = 1
    /\ executed = <<>>
    /\ err = "none"
    /\ failed = {}

NextIndex ==
    \/ generate_indexes_start
    \/ generate_indexes_collect
    \/ generate_indexes_monthly
    \/ generate_indexes_yearly

SpecIndex == InitIndex /\ [][NextIndex]_vars

----------------------------------------------------------------------------
(* update_file_tags (indexer.py 54-119).  The file is a record                *)
(*   [ext, readable, writable, fm, canon, other, tags, body]                  *)
(* fm says what the text starts with: "none" no "---\n...\n---\n" block,      *)
(* "bad_yaml" a block yaml.safe_load rejects, "empty" a block that loads as   *)
(* None, "scalar" / "list" a block that loads as a string or a list,          *)
(* "mapping" a block that loads as a dict.  For a mapping, other says that it *)
(* has keys besides tags, and tags is what frontmatter.get('tags', []) gives: *)
(* [form, items] with form "absent", "str", "list" or "int".  canon says that *)
(* the block's text is what yaml.dump would print for the loaded value.       *)

year_tag == "YEAR2024"
month_tag == "MONTH2024_02"

TagNames == {"t", year_tag, month_tag}

TagValues ==
    {[form |-> "absent", items |-> <<>>], [form |-> "int", items |-> <<>>],
     [form |-> "list", items |-> <<>>]}
    \cup {[form |-> f, items |-> <<t>>] : f \in {"str", "list"}, t \in TagNames}
    \cup {[form |-> "list", items |-> <<"t", year_tag>>],
          [form |-> "list", items |-> <<year_tag, month_tag>>]}

MdFiles ==
    [ext : {".md", ".MD", ".txt"}, readable : BOOLEAN, writable : BOOLEAN,
     fm : {"none", "bad_yaml", "empty", "scalar", "list"}, canon : {FALSE},
     other : {FALSE}, tags : {[form |-> "absent", items |-> <<>>]}, body : {"body"}]
    \cup
    [ext : {".md"}, readable : BOOLEAN, writable : BOOLEAN,
     fm : {"mapping"}, canon : BOOLEAN, other : BOOLEAN, tags : TagValues, body : {"body"}]

\* tags = frontmatter.get('tags', []); a str becomes a one-element list
tags_list(tags) == tags.items

\* if tag not in tags: tags.append(tag)
append_missing(items, tag) ==
    IF \E i \in DOMAIN items : items[i] = tag THEN items ELSE Append(items, tag)

\* the file update_file_tags writes back: the frontmatter dumped anew, the rest kept
with_tags(f, keep_keys) ==
    [f EXCEPT !.fm = "mapping",
              !.canon = TRUE,
              !.other = keep_keys /\ @,
              !.tags = [form |-> "list",
                        items |-> append_missing(append_missing(tags_list(f.tags), year_tag),
                                                 month_tag)]]

update_file_tags(f) ==
    IF lower(f.ext) # ".md" THEN [file |-> f, ret |-> "False"]
    ELSE IF ~f.readable THEN [file |-> f, ret |-> "False"]
    ELSE IF f.fm \in {"none", "bad_yaml"} THEN [file |-> f, ret |-> "False"]
    ELSE IF f.fm = "mapping" /\ f.tags.form = "int" THEN [file |-> f, ret |-> "raised"]
    ELSE IF ~f.writable THEN [file |-> f, ret |-> "False"]
    ELSE [file |-> with_tags(f, f.fm = "mapping"), ret |-> "True"]

update_file_tags_call ==
    /\ tag_ret = "none" /\ md_file # NoFile
    /\ md_file' = update_file_tags(md_file).file
    /\ tag_ret' = update_file_tags(md_file).ret
    /\ UNCHANGED <<guiVars, indexVars, fs, obsidian_dirs, disk, target_fs, target_dirs, planVars,
                   applyVars, link_in, link_out>>

InitTags ==
    /\ md_file \in MdFiles
    /\ tag_ret = "none"
    /\ IndexIdle
    /\ GuiIdle
    /\ link_in = NoLink
    /\ link_out = NoLink
    /\ fs = << >>
    /\ obsidian_dirs = {}
    /\ disk = "ok"
    /\ ignore_patterns = <<>>
    /\ target_fs = << >>
    /\ target_dirs = {}
    /\ pc = "done"
    /\ index = <<>>
    /\ excluded = <<>>
    /\ actions = <<>>
    /\ notes = <<>>
    /\ warnings = <<>>
    /\ replaced_files = <<>>
    /\ dry_run = FALSE
    /\ apc = "returned"
    /\ pos = 1
    /\ executed = <<>>
    /\ err = "none"
    /\ failed = {}

NextTags == update_file_tags_call

SpecTags == InitTags /\ [][NextTags]_vars

----------------------------------------------------------------------------
(* build_plan_action (gui.py 318-336) and _format_actions_by_type (gui.py  *)
(* 14-60).  sources_str is a sequence of lines: a line is blank or holds   *)
(* a path, 1..3 being the source directories and 0 a path that does not    *)
(* exist.  target_str is "" or "T".                                        *)

MaxGuiFiles == 2

action_type_order ==
    <<"mkdir", "copy", "rename_copy", "merge_markdown", "create_link_file",
      "update_file_links", "merge_settings">>

RECURSIVE sorted_groups(_, _)
\* the actions grouped by type, the groups in action_type_order, each group in plan
\* order (build_plan emits no type outside action_type_order)
sorted_groups(acts, k) ==
    IF k > Len(action_type_order) THEN <<>>
    ELSE SelectSeq(acts, LAMBDA a : a.type = action_type_order[k])
         \o sorted_groups(acts, k + 1)

format_row(counter, a) ==
    CASE a.type \in {"copy", "rename_copy"} -> <<counter, a.type, a.src, a.dest>>
      [] a.type = "merge_markdown" -> <<counter, a.type, a.src_a, a.src_b>>
      [] a.type = "merge_settings" -> <<counter, a.type, a.sources, a.dest>>
      [] a.type = "mkdir" -> <<counter, a.type, a.path, "">>
      [] a.type = "create_link_file" -> <<counter, a.type, "", a.link_to>>
      [] a.type = "update_file_links" ->
            <<counter, a.type, a.file, [updates |-> Len(a.link_updates)]>>
      [] OTHER -> <<counter, a.type, "", "">>

format_actions_by_type(acts) ==
    LET g == sorted_groups(acts, 1)
    IN [i \in DOMAIN g |-> format_row(i, g[i])]

rows_of_type(all_rows, t) == SelectSeq(all_rows, LAMBDA r : r[2] = t)

json_dumps(x) == [json |-> x]

\* [Path(s.strip()) for s in sources_str.split('\n') if s.strip()]
gui_sources(sources_str) ==
    LET kept == SelectSeq(sources_str, LAMBDA l : ~l.blank)
    IN [i \in DOMAIN kept |-> kept[i].path]

\* the validation failure: one tuple of 8
build_plan_action_invalid ==
    /\ gui_in # NoCall /\ gui_out = <<>> /\ pc = "idle"
    /\ gui_sources(gui_in.sources_str) = <<>> \/ gui_in.target_str = ""
    /\ gui_out' = <<"", <<>>, <<>>, "Please provide", <<>>, <<>>, <<>>, <<>>>>
    /\ UNCHANGED <<tagVars, indexVars, fs, obsidian_dirs, disk, target_fs, target_dirs,
                   planVars, applyVars, link_in, link_out, gui_in>>

\* try: build_plan(sources, target, ...) is entered; every source is a directory
build_plan_action_try ==
    /\ gui_in # NoCall /\ gui_out = <<>> /\ pc = "idle"
    /\ gui_sources(gui_in.sources_str) # <<>> /\ gui_in.target_str # ""
    /\ gui_sources(gui_in.sources_str) = source_args
    /\ pc' = "scan"
    /\ UNCHANGED <<guiVars, tagVars, indexVars, fs, obsidian_dirs, disk, target_fs,
                   target_dirs, applyVars, link_in, link_out, ignore_patterns, index,
                   excluded, actions, notes, warnings, replaced_files>>

\* build_plan has returned: the tuple of gui.py 334
build_plan_action_return ==
    /\ gui_in # NoCall /\ gui_out = <<>> /\ pc = "done"
    /\ LET all_rows == format_actions_by_type(actions)
           details  == json_dumps([notes |-> notes, warnings |-> warnings,
                                   excluded_files |-> excluded])
       IN gui_out' = <<json_dumps([actions |-> actions, notes |-> notes,
                                   warnings |-> warnings, excluded_files |-> excluded]),
                       all_rows, details, "",
                       rows_of_type(all_rows, "merge_markdown"),
                       rows_of_type(all_rows, "rename_copy"),
                       rows_of_type(all_rows, "merge_settings"),
                       rows_of_type(all_rows, "copy"),
                       "verbose_log">>
    /\ UNCHANGED <<tagVars, indexVars, fs, obsidian_dirs, disk, target_fs, target_dirs,
                   planVars, applyVars, link_in, link_out, gui_in>>

\* build_plan raises: a source that does not exist makes s.iterdir() (planner.py 85)
\* raise FileNotFoundError in the expansion loop, before any file is scanned; the
\* except clause of gui.py 335-336 returns
build_plan_action_except ==
    /\ gui_in # NoCall /\ gui_out = <<>> /\ pc = "idle"
    /\ gui_sources(gui_in.sources_str) # <<>> /\ gui_in.target_str # ""
    /\ \E i \in DOMAIN gui_sources(gui_in.sources_str) :
           gui_sources(gui_in.sources_str)[i] \notin Vaults
    /\ pc' = "raised"
    /\ gui_out' = <<"", <<>>, <<>>, "No such file or directory", <<>>, <<>>, <<>>, <<>>, "">>
    /\ UNCHANGED <<tagVars, indexVars, fs, obsidian_dirs, disk, target_fs, target_dirs,
                   applyVars, link_in, link_out, gui_in, ignore_patterns, index,
                   excluded, actions, notes, warnings, replaced_files>>

GuiFsChoices ==
    UNION {[S -> Contents] : S \in {X \in SUBSET Slots : Cardinality(X) <= MaxGuiFiles}}

BlankLine == [blank |-> TRUE, path |-> 0]

PathLine(v) == [blank |-> FALSE, path |-> v]

GuiSourceLines ==
    {<<>>, <<BlankLine>>,
     <<PathLine(1), PathLine(2), PathLine(3)>>,
     <<PathLine(1), BlankLine, PathLine(2), PathLine(3), BlankLine>>,
     <<PathLine(1), PathLine(2), PathLine(3), PathLine(0)>>}

InitGui ==
    /\ gui_in \in [sources_str : GuiSourceLines, target_str : {"", "T"}]
    /\ gui_out = <<>>
    /\ fs \in GuiFsChoices
    /\ obsidian_dirs = Vaults
    /\ disk = "any"
    /\ ignore_patterns = <<>>
    /\ target_fs = << >>
    /\ target_dirs = {}
    /\ pc = "idle"
    /\ index = <<>>
    /\ excluded = <<>>
    /\ actions = <<>>
    /\ notes = <<>>
    /\ warnings = <<>>
    /\ replaced_files = <<>>
    /\ dry_run = FALSE
    /\ apc = "idle"
    /\ pos = 1
    /\ executed = <<>>
    /\ err = "none"
    /\ failed = {}
    /\ link_in = NoLink
    /\ link_out = NoLink
    /\ IndexIdle
    /\ TagIdle

NextGui ==
    \/ build_plan_action_invalid
    \/ build_plan_action_try
    \/ NextPlan
    \/ build_plan_action_return
    \/ build_plan_action_except

SpecGui == InitGui /\ [][NextGui]_vars

----------------------------------------------------------------------------
(* The legacy planner: build_plan of obsidian_merger/planner.py (37-139).  *)
(* It shares the planner's variables; it has no ignore patterns, no vault  *)
(* expansion and no excluded list.                                         *)

MaxLegacyFiles == 3

\* d/img.png: same file name as img.png, another directory
P_dimg == [dir |-> <<"d">>, stem |-> <<"img">>, ext |-> ".png"]

LegacyPathOrder == <<P_a, P_img, P_txt, P_b, P_dimg>>

\* _rel_files
legacy_rel_files(v) == SelectSeq(LegacyPathOrder, LAMBDA rel : exists(v, rel) /\ ~workspace(rel))

legacy_scan_list ==
    Flatten([i \in DOMAIN source_args |->
                [j \in DOMAIN legacy_rel_files(source_args[i]) |->
                    [vault |-> source_args[i], rel |-> legacy_rel_files(source_args[i])[j]]]])

RECURSIVE legacy_index(_, _)
\* index[str(rel)].append((vname, ap, _sha256(ap)))
legacy_index(idx, list) ==
    IF list = <<>> THEN idx
    ELSE legacy_index(index_append(idx, Head(list).rel,
                          [vname |-> VaultName(Head(list).vault), ap |-> Head(list),
                           h |-> sha256(Head(list))]),
                      Tail(list))

legacy_missing_obsidian ==
    LET bad == SelectSeq(source_args, LAMBDA v : v \notin obsidian_dirs)
    IN [i \in DOMAIN bad |-> [kind |-> "missing .obsidian", source |-> bad[i]]]

legacy_build_plan_scan ==
    /\ pc = "scan"
    /\ index' = legacy_index(<<>>, legacy_scan_list)
    /\ warnings' = legacy_missing_obsidian
    /\ actions' = <<[type |-> "mkdir", path |-> "."]>>
    /\ pc' = "resolve"
    /\ UNCHANGED <<guiVars, tagVars, indexVars, fs, obsidian_dirs, disk, link_in, link_out,
                   target_fs, target_dirs, applyVars, ignore_patterns, excluded, notes,
                   replaced_files>>

\* one iteration of the loop over index.items(): the destination is the path itself
legacy_resolve_path(rel, entries) ==
    IF Len(entries) = 1
    THEN [actions |-> <<[type |-> "copy", src |-> entries[1].ap, dest |-> rel]>>,
          notes |-> <<>>, warnings |-> <<>>]
    ELSE IF Cardinality(hashes(entries)) = 1
    THEN [actions |-> <<[type |-> "copy", src |-> entries[1].ap, dest |-> rel]>>,
          notes |-> <<[kind |-> "Deduplicated identical", rel |-> rel,
                       n |-> Len(entries), kept |-> entries[1].vname]>>,
          warnings |-> <<>>]
    ELSE IF IsMd(rel) /\ Len(entries) = 2
    THEN [actions |-> <<merge_action(rel, entries)>>,
          notes |-> <<[kind |-> "Proposed merge for markdown collision", rel |-> rel,
                       v1 |-> entries[1].vname, v2 |-> entries[2].vname]>>,
          warnings |-> <<>>]
    ELSE [actions |-> rename_copies(rel, entries),
          notes |-> <<>>,
          warnings |-> <<[kind |-> "Collision", rel |-> rel, n |-> Len(entries)]>>]

RECURSIVE legacy_resolve_all(_, _)
legacy_resolve_all(st, idx) ==
    IF idx = <<>> THEN st
    ELSE LET r == legacy_resolve_path(Head(idx).rel, Head(idx).entries)
         IN legacy_resolve_all([actions |-> st.actions \o r.actions,
                                notes |-> st.notes \o r.notes,
                                warnings |-> st.warnings \o r.warnings], Tail(idx))

legacy_build_plan_resolve ==
    /\ pc = "resolve"
    /\ LET st == legacy_resolve_all([actions |-> actions, notes |-> notes,
                                     warnings |-> warnings], index)
       IN /\ actions' = st.actions
          /\ notes' = st.notes
          /\ warnings' = st.warnings
    /\ pc' = "linked"
    /\ UNCHANGED <<guiVars, tagVars, indexVars, fs, obsidian_dirs, disk, link_in, link_out,
                   target_fs, target_dirs, applyVars, ignore_patterns, index, excluded,
                   replaced_files>>

legacy_has_source(link) == \E i \in DOMAIN source_args : exists(source_args[i], link)

\* for s in sources: ... break
legacy_first_source(link) ==
    source_args[CHOOSE i \in DOMAIN source_args :
                    /\ exists(source_args[i], link)
                    /\ \A j \in 1..(i - 1) : ~exists(source_args[j], link)]

\* the (src, dest) pairs collected for linked files that are not planned yet
legacy_linked_to_copy(acts) ==
    {[src |-> [vault |-> legacy_first_source(link), rel |-> link], dest |-> rel_link(link)] :
        link \in {l \in index_links : legacy_has_source(l)
                                      /\ rel_link(l) \notin planned_files(acts)}}

\* Path(dest).name
basename(path) == [stem |-> path.stem, ext |-> path.ext]

\* {Path(dest).name for src, dest in linked_to_copy if '!res' in dest}
linked_res_files(linked) == {basename(l.dest) : l \in {x \in linked : InRes(x.dest)}}

\* the filter of planner.py 126
legacy_keep(acts, linked) ==
    SelectSeq(acts, LAMBDA a : ~(a.type = "copy" /\ basename(a.dest) \in linked_res_files(linked)))

\* linked_to_copy is a set: the order of the appended copies is not fixed
legacy_build_plan_linked ==
    /\ pc = "linked"
    /\ LET linked == legacy_linked_to_copy(actions)
       IN \E ord \in SeqsOf(linked) :
             actions' = legacy_keep(actions, linked)
                        \o [i \in DOMAIN ord |->
                               [type |-> "copy", src |-> ord[i].src, dest |-> ord[i].dest]]
                        \o <<[type |-> "merge_settings",
                              sources |-> source_args, dest |-> ".obsidian"]>>
    /\ pc' = "done"
    /\ UNCHANGED <<guiVars, tagVars, indexVars, fs, obsidian_dirs, disk, link_in, link_out,
                   target_fs, target_dirs, applyVars, ignore_patterns, index, excluded,
                   notes, warnings, replaced_files>>

LegacySlots ==
    ({1, 2} \X {P_a, P_img, P_dimg}) \cup {<<1, P_txt>>, <<3, P_b>>}

LegacyFsChoices ==
    UNION {[S -> Contents] : S \in {X \in SUBSET LegacySlots : Cardinality(X) <= MaxLegacyFiles}}

InitLegacy ==
    /\ fs \in LegacyFsChoices
    /\ obsidian_dirs \in {Vaults, {1, 2}}
    /\ disk = "any"
    /\ ignore_patterns = <<>>
    /\ target_fs = << >>
    /\ target_dirs = {}
    /\ pc = "scan"
    /\ index = <<>>
    /\ excluded = <<>>
    /\ actions = <<>>
    /\ notes = <<>>
    /\ warnings = <<>>
    /\ replaced_files = <<>>
    /\ dry_run = FALSE
    /\ apc = "idle"
    /\ pos = 1
    /\ executed = <<>>
    /\ err = "none"
    /\ failed = {}
    /\ link_in = NoLink
    /\ link_out = NoLink
    /\ IndexIdle
    /\ TagIdle
    /\ GuiIdle

NextLegacy ==
    \/ legacy_build_plan_scan
    \/ legacy_build_plan_resolve
    \/ legacy_build_plan_linked

SpecLegacy == InitLegacy /\ [][NextLegacy]_vars

----------------------------------------------------------------------------
(* Specification of the planner on vaults that hold files already named    *)
(* like a renamed copy                                                     *)

MaxNameFiles == 4

NameSlots ==
    ({1, 2, 3} \X {P_a}) \cup ({1, 2} \X {P_txt, P_a_vA}) \cup {<<1, P_txt_vA>>}

NameFsChoices ==
    UNION {[S -> Contents] : S \in {X \in SUBSET NameSlots : Cardinality(X) <= MaxNameFiles}}

InitNames ==
    /\ fs \in NameFsChoices
    /\ obsidian_dirs = Vaults
    /\ disk = "any"
    /\ ignore_patterns = <<>>
    /\ target_fs = << >>
    /\ target_dirs = {}
    /\ pc = "scan"
    /\ index = <<>>
    /\ excluded = <<>>
    /\ actions = <<>>
    /\ notes = <<>>
    /\ warnings = <<>>
    /\ replaced_files = <<>>
    /\ dry_run = FALSE
    /\ apc = "idle"
    /\ pos = 1
    /\ executed = <<>>
    /\ err = "none"
    /\ failed = {}
    /\ link_in = NoLink
    /\ link_out = NoLink
    /\ IndexIdle
    /\ TagIdle
    /\ GuiIdle

SpecNames == InitNames /\ [][NextPlan]_vars

----------------------------------------------------------------------------
(* Claims about apply_plan, checked under SpecApply *)

AllRecognized == \A i \in DOMAIN actions : actions[i].type \in Recognized

HasUnknown == ~AllRecognized

FirstUnknown ==
    CHOOSE i \in DOMAIN actions :
        /\ actions[i].type \notin Recognized
        /\ \A j \in 1..(i - 1) : actions[j].type \in Recognized

UpTo(n) == [k \in 1..n |-> k]

\* C1 as stated: with only recognized action types, apply_plan never raises,
\* whatever I/O failure occurs (a parent directory that cannot be created included).
C1_NeverRaisesOnRecognized == AllRecognized => apc # "raised"

\* C1 amended: apply_plan raises ValueError only at an action of unrecognized type, and
\* OSError only after a directory could not be created (target root, a destination's
\* parent, the settings directory), a redirect stub could not be written or the report
\* could not be written; a failed read of a source or a failed write of the destination
\* (and of its placeholder or fallback files) in copy, rename_copy, merge_markdown and
\* update_file_links never raises.
C1_OnlyFileFailuresContained ==
    /\ (apc = "raised" /\ err = "ValueError") =>
           (pos \in DOMAIN actions /\ actions[pos].type \notin Recognized)
    /\ (apc = "raised" /\ err = "OSError") =>
           (failed \cap {"mkdir", "stub_write", "report_write"} # {})
    /\ (apc = "raised") => err \in {"ValueError", "OSError"}

C1_Witness ==
    /\ apc = "returned" /\ ~dry_run /\ AllRecognized
    /\ {"read", "write", "fallback_write"} \subseteq failed

\* C2: a dry run changes nothing on the filesystem: no directory, no file of the target
\* tree, no report, and no source file.
C2_DryRunChangesNothing ==
    [][dry_run => (target_fs' = target_fs /\ target_dirs' = target_dirs /\ fs' = fs)]_vars

C2_Witness ==
    /\ dry_run /\ apc = "returned" /\ target_dirs = {} /\ target_fs = << >>
    /\ \E i, j, k \in DOMAIN actions :
          /\ actions[i].type = "mkdir"
          /\ actions[j].type = "copy"
          /\ actions[k].type = "create_link_file"

----------------------------------------------------------------------------
(* Claims about build_plan, checked under SpecPlan *)

HasDest(a) == a.type \in {"copy", "rename_copy", "merge_markdown", "create_link_file"}

ActSrcs(a) == IF a.type \in {"copy", "rename_copy"} THEN {a.src}
              ELSE IF a.type = "merge_markdown" THEN {a.src_a, a.src_b}
              ELSE {}

SourcePos(v) == CHOOSE i \in DOMAIN sources : sources[i] = v

Differing(entries) == Cardinality(hashes(entries)) > 1

\* C3: no step of build_plan creates, changes or deletes a file or directory of a
\* source vault or of the target.
C3_BuildPlanReadOnly ==
    [][fs' = fs /\ target_fs' = target_fs /\ target_dirs' = target_dirs]_vars

C3_Witness ==
    /\ pc = "done" /\ Cardinality(DOMAIN fs) = 3
    /\ \E i \in DOMAIN actions : actions[i].type = "create_link_file"
    /\ \E i \in DOMAIN actions : actions[i].type = "update_file_links"

\* C5 as stated: in the final plan every file whose relative path matches an ignore
\* pattern is recorded in excluded_files and is the source of no action.
C5_IgnoredFileNeverASource ==
    pc = "done" =>
        \A f \in DOMAIN fs :
            ignored(f[2]) =>
                /\ [vault |-> VaultName(f[1]), rel |-> f[2]] \in Range(excluded)
                /\ \A i \in DOMAIN actions :
                      [vault |-> f[1], rel |-> f[2]] \notin ActSrcs(actions[i])

\* C6: right after per-path resolution, a path contributed by two or more vaults with
\* one common hash has exactly one action: a copy from the first contributor in source
\* order to the path's destination; and a "Deduplicated identical" note names the path.
C6_IdenticalKeptOnce ==
    pc = "linked" =>
        \A k \in DOMAIN index :
            LET key == index[k].rel
                e == index[k].entries
                mine == {ix \in DOMAIN actions : LET a == actions[ix] IN
                            \/ \E src \in ActSrcs(a) : src.rel = key
                            \/ HasDest(a) /\ a.dest = Relocate(key)}
            IN (Len(e) >= 2 /\ ~Differing(e)) =>
                 /\ Cardinality(mine) = 1
                 /\ \A i \in mine :
                       /\ actions[i].type = "copy"
                       /\ actions[i].dest = Relocate(key)
                       /\ actions[i].src.rel = key
                       /\ exists(actions[i].src.vault, key)
                       /\ \A j \in DOMAIN e :
                             SourcePos(actions[i].src.vault) <= SourcePos(e[j].ap.vault)
                 /\ \E n \in DOMAIN notes :
                       /\ notes[n].kind = "Deduplicated identical"
                       /\ notes[n].rel = Relocate(key)

C6_Witness ==
    /\ pc = "linked"
    /\ \E k \in DOMAIN index :
          /\ Len(index[k].entries) = 3 /\ ~Differing(index[k].entries)
          /\ index[k].rel = P_img

\* C7: in the final plan, a markdown path contributed by exactly two vaults with
\* different hashes has exactly one merge_markdown action, with dest <target>/<relpath>,
\* side a from the earlier vault and side b from the later one, and no copy and no
\* rename_copy action.
C7_TwoWayMarkdownMerged ==
    pc = "done" =>
        \A k \in DOMAIN index :
            LET key == index[k].rel
                e == index[k].entries
                merges == {ix \in DOMAIN actions : LET a == actions[ix] IN
                              a.type = "merge_markdown" /\
                              (a.dest = key \/ a.src_a.rel = key \/ a.src_b.rel = key)}
                copies == {ix \in DOMAIN actions : LET a == actions[ix] IN
                              a.type \in {"copy", "rename_copy"} /\
                              (a.dest = key \/ a.src.rel = key)}
            IN (IsMd(key) /\ Len(e) = 2 /\ Differing(e)) =>
                 /\ Cardinality(merges) = 1
                 /\ copies = {}
                 /\ \A i \in merges :
                       /\ actions[i].dest = key
                       /\ actions[i].src_a.rel = key /\ actions[i].src_b.rel = key
                       /\ exists(actions[i].src_a.vault, key)
                       /\ exists(actions[i].src_b.vault, key)
                       /\ SourcePos(actions[i].src_a.vault) < SourcePos(actions[i].src_b.vault)
                       /\ actions[i].vault_a = VaultName(actions[i].src_a.vault)
                       /\ actions[i].vault_b = VaultName(actions[i].src_b.vault)

C7_Witness ==
    /\ pc = "done"
    /\ \E k \in DOMAIN index :
          /\ index[k].rel = P_b /\ Len(index[k].entries) = 2 /\ Differing(index[k].entries)
    /\ \E i \in DOMAIN actions : actions[i].type = "merge_markdown" /\ actions[i].dest = P_b

\* C8: in the final plan, a path with differing content that is not markdown, or is
\* markdown with three or more contributors, has no merge_markdown action and exactly one
\* rename_copy action per contributor, from that vault's file to
\* "<stem>__vault-<label><ext>" in the directory of the path's destination, and there is
\* exactly one warning "Collision on <relpath>: proposing <n> renamed copies".
C8_CollisionRenamed ==
    pc = "done" =>
        \A k \in DOMAIN index :
            LET key == index[k].rel
                e == index[k].entries
                merges == {ix \in DOMAIN actions : LET a == actions[ix] IN
                              a.type = "merge_markdown" /\
                              (a.dest = Relocate(key) \/ a.src_a.rel = key \/ a.src_b.rel = key)}
                renames == {ix \in DOMAIN actions : LET a == actions[ix] IN a.type = "rename_copy" /\ a.src.rel = key}
            IN (Differing(e) /\ (~IsMd(key) \/ Len(e) >= 3)) =>
                 /\ merges = {}
                 /\ Cardinality(renames) = Len(e)
                 /\ \A j \in DOMAIN e :
                       LET his == {i \in renames : actions[i].src = e[j].ap} IN
                       /\ Cardinality(his) = 1
                       /\ \A i \in his :
                             /\ actions[i].dest.dir = Relocate(key).dir
                             /\ actions[i].dest.stem = key.stem \o <<vault_suffix(e[j].vname)>>
                             /\ actions[i].dest.ext = key.ext
                             /\ e[j].vname = VaultName(actions[i].src.vault)
                 /\ Cardinality({ix \in DOMAIN warnings : LET w == warnings[ix] IN
                        w = [kind |-> "Collision", rel |-> Relocate(key), n |-> Len(e)]}) = 1
                 /\ Cardinality({ix \in DOMAIN warnings : LET w == warnings[ix] IN
                        w.kind = "Collision" /\ w.rel = Relocate(key)}) = 1

C8_Witness ==
    /\ pc = "done"
    /\ \E k \in DOMAIN index :
          /\ index[k].rel = P_a /\ Len(index[k].entries) = 3 /\ Differing(index[k].entries)
    /\ Cardinality({ix \in DOMAIN actions : LET a == actions[ix] IN a.type = "rename_copy"}) = 3

\* C9 as stated: in the final plan every copy or rename_copy action whose source does
\* not end in .md and does not lie under .obsidian/ has its destination under !res/.
C9_NonMarkdownUnderRes ==
    pc = "done" =>
        \A i \in DOMAIN actions :
            (/\ actions[i].type \in {"copy", "rename_copy"}
             /\ ~IsMd(actions[i].src.rel)
             /\ ~UnderObsidian(actions[i].src.rel)) => starts_with_res(actions[i].dest)

\* C9 amended: in every plan, every copy or rename_copy action whose source ends in
\* neither .md nor .txt and does not lie under .obsidian/ has its destination under
\* !res/, whether per-path resolution or the linked-asset pull-in created it; the action
\* of a .txt source has its destination under !res/ when per-path resolution created it
\* and at <target>/<relpath>, outside !res/, when the pull-in created it.
C9_NonTextUnderRes ==
    \A i \in DOMAIN actions :
        (/\ actions[i].type \in {"copy", "rename_copy"}
         /\ ~IsMd(actions[i].src.rel)
         /\ ~UnderObsidian(actions[i].src.rel)) =>
            IF lower(actions[i].src.rel.ext) = ".txt"
            THEN \/ starts_with_res(actions[i].dest)
                 \/ actions[i].type = "copy" /\ actions[i].dest = actions[i].src.rel
            ELSE starts_with_res(actions[i].dest)

C9_Witness ==
    /\ pc = "done"
    /\ ignore_patterns # <<>>
    /\ \E i \in DOMAIN actions :
          /\ actions[i].type = "copy"
          /\ actions[i].src.rel = P_img /\ actions[i].dest = Res(P_img)
    /\ \E i \in DOMAIN actions :
          /\ actions[i].type = "copy"
          /\ actions[i].src.rel = P_txt /\ actions[i].dest = P_txt

\* C10: the cross-name dedup pass, for every group of two or more copy actions whose
\* sources have the same hash, leaves exactly one member a copy action: the one whose
\* destination has the fewest path segments (the earliest in action order on a tie);
\* every other member is removed or becomes a create_link_file action whose link_to is
\* the kept destination; the later pass only appends, so the kept copy is in the final
\* plan.
C10_Copies == {i \in DOMAIN actions : actions[i].type = "copy"}

C10_Group(i) == {j \in C10_Copies : sha256(actions[j].src) = sha256(actions[i].src)}

C10_Kept(i) ==
    CHOOSE k \in C10_Group(i) :
        \A m \in C10_Group(i) :
            \/ parts(actions[k].dest) < parts(actions[m].dest)
            \/ parts(actions[k].dest) = parts(actions[m].dest) /\ k <= m

C10_DedupKeepsShallowest ==
    [][/\ pc = "dedup" =>
            \A i \in C10_Copies :
                LET k == C10_Kept(i)
                    after(d) == {j \in DOMAIN actions' : HasDest(actions'[j]) /\ actions'[j].dest = d}
                IN Cardinality(C10_Group(i)) >= 2 =>
                     IF i = k
                     THEN \E j \in DOMAIN actions' : actions'[j] = actions[i]
                     ELSE /\ Cardinality(after(actions[i].dest)) <= 1
                          /\ \A j \in after(actions[i].dest) :
                                actions'[j] = [type |-> "create_link_file",
                                               dest |-> actions[i].dest,
                                               link_to |-> actions[k].dest]
       /\ pc = "repair" => SubSeq(actions', 1, Len(actions)) = actions]_vars

C10_Witness ==
    /\ pc = "done"
    /\ \E i, j \in DOMAIN actions :
          /\ actions[i].type = "create_link_file" /\ actions[i].dest = P_b
          /\ actions[j].type = "copy" /\ actions[j].dest = actions[i].link_to
          /\ j > i
    /\ \E n \in DOMAIN notes : notes[n].kind = "Deduplicated non-text file"

----------------------------------------------------------------------------
(* Claims about a whole merge, checked under SpecMerge *)

Merged == apc = "returned" /\ failed = {}

IsText(rel) == lower(rel.ext) \in {".md", ".txt"}

NoStubForNonText ==
    \A i \in DOMAIN actions :
        actions[i].type = "create_link_file" => IsText(actions[i].dest)

\* the files of the target that hold the bytes of content c
CopiesOf(c) == {d \in DOMAIN target_fs : target_fs[d].kind = "file" /\ target_fs[d].id = c}

\* a scanned file that is not a text file and whose content another scanned file has too
DuplicatedNonText(f) ==
    /\ ~IsText(f[2]) /\ ~ignored(f[2])
    /\ \E g \in DOMAIN fs : g # f /\ ~ignored(g[2]) /\ fs[g] = fs[f]

\* C11 as stated: no create_link_file action has a destination that is not .md/.txt, and
\* after a merge without I/O failure the content of every duplicated non-text file is in
\* the target exactly once.
C11_OneCopyOfDuplicatedNonText ==
    /\ NoStubForNonText
    /\ Merged => \A f \in DOMAIN fs :
                    DuplicatedNonText(f) => Cardinality(CopiesOf(fs[f])) = 1

\* C11 amended: no create_link_file action has a destination that is not .md/.txt; the
\* copy actions of a final plan have sources of pairwise different content, so after a
\* merge without I/O failure the content of a duplicated non-text file is held by at most
\* one file that a copy action wrote, and every file beyond that one was written by a
\* rename_copy action (the renamed copies of a path on which the vaults disagree are not
\* deduplicated against each other).
C11_NoStubAndCopiesDistinct ==
    /\ NoStubForNonText
    /\ pc = "done" =>
          \A i, j \in DOMAIN actions :
              (i # j /\ actions[i].type = "copy" /\ actions[j].type = "copy")
                  => sha256(actions[i].src) # sha256(actions[j].src)
    /\ Merged =>
          \A f \in DOMAIN fs :
              DuplicatedNonText(f) =>
                  LET byCopy == {d \in CopiesOf(fs[f]) :
                                    \E i \in DOMAIN actions :
                                        actions[i].type = "copy" /\ actions[i].dest = d}
                      byRename == {d \in CopiesOf(fs[f]) :
                                      \E i \in DOMAIN actions :
                                          actions[i].type = "rename_copy" /\ actions[i].dest = d}
                  IN /\ Cardinality(byCopy) <= 1
                     /\ CopiesOf(fs[f]) = byCopy \cup byRename
                     /\ CopiesOf(fs[f]) # {}

C11_Witness ==
    /\ Merged
    /\ \E n \in DOMAIN notes : notes[n].kind = "Deduplicated non-text file"
    /\ \E f \in DOMAIN fs : f[2] = P_img /\ DuplicatedNonText(f) /\ CopiesOf(fs[f]) = {P_a}
    /\ Res(P_img) \notin DOMAIN target_fs

\* the link targets the raw source text of a copy or merge_markdown action holds
SourceLinks(a) ==
    IF a.type = "copy" THEN LinksOf(read_text(a.src))
    ELSE LinksOf(read_text(a.src_a)) \cup LinksOf(read_text(a.src_b))

RepairsFor(d) ==
    {j \in DOMAIN actions : actions[j].type = "update_file_links" /\ actions[j].file = d}

\* C12 as stated: in the final plan, for every replaced pair (old -> new) and every copy
\* or merge_markdown action with a .md destination whose source text links to old, there
\* is exactly one update_file_links action for that destination, and its link_updates
\* maps old to new.
C12_EveryLinkingNoteRepaired ==
    pc = "done" =>
        \A k \in DOMAIN replaced_files : \A i \in DOMAIN actions :
            (/\ actions[i].type \in {"copy", "merge_markdown"}
             /\ actions[i].dest.ext = ".md"
             /\ replaced_files[k][1] \in SourceLinks(actions[i]))
                => /\ Cardinality(RepairsFor(actions[i].dest)) = 1
                   /\ \A j \in RepairsFor(actions[i].dest) :
                         replaced_files[k] \in Range(actions[j].link_updates)

\* C13: a merge_markdown action applied with no I/O failure writes to its destination
\* exactly four pieces in this order: the divider "From <vault_a>", the link-rewritten
\* text of src_a, the divider "From <vault_b>", the link-rewritten text of src_b; both
\* bodies are there whole, the body of vault_a first.
C13_MergedHoldsBothBodiesInOrder ==
    [][(at({"merge_markdown"}) /\ ~dry_run /\ disk = "ok") =>
          LET out == target_fs'[cur.dest].parts IN
          /\ cur.dest \in DOMAIN target_fs'
          /\ target_fs'[cur.dest].kind = "merged"
          /\ Len(out) = 4
          /\ out[1] = [kind |-> "divider", label |-> cur.vault_a]
          /\ out[2] = update_links(raw(fs[<<cur.src_a.vault, cur.src_a.rel>>]))
          /\ out[2].id = fs[<<cur.src_a.vault, cur.src_a.rel>>]
          /\ out[3] = [kind |-> "divider", label |-> cur.vault_b]
          /\ out[4] = update_links(raw(fs[<<cur.src_b.vault, cur.src_b.rel>>]))
          /\ out[4].id = fs[<<cur.src_b.vault, cur.src_b.rel>>]]_vars

C13_Witness ==
    /\ Merged /\ disk = "ok"
    /\ P_a \in DOMAIN target_fs
    /\ target_fs[P_a].kind = "merged"
    /\ target_fs[P_a].parts[2].id = 3
    /\ Res(P_img) \in target_fs[P_a].parts[2].links
    /\ target_fs[P_a].parts[4].id = 1

----------------------------------------------------------------------------
(* Claims about _update_links, checked under SpecLinks *)

IsAbsoluteUrl(t) == t.scheme # ""

\* one half of a wiki link "qualifies": it contains a '.' and its extension is
\* neither .md nor .txt
Qualifies(t) == has_dot(t) /\ lower(t.ext) \notin {".md", ".txt"}

\* C14: the target of a markdown inline link becomes "!res/<basename>" if and only if
\* it is not an absolute URL, is not a bare anchor, contains a '.', has an extension
\* other than .md/.txt and does not start with "!res/"; every other target, and the
\* label, is returned as it was.
C14_InlineRewrittenIffQualifying ==
    (link_in.kind = "md" /\ link_out # NoLink) =>
        LET t == link_in.target
            q == /\ ~IsAbsoluteUrl(t)
                 /\ ~t.anchor
                 /\ has_dot(t)
                 /\ t.ext # "" /\ lower(t.ext) \notin {".md", ".txt"}
                 /\ ~t.res
        IN /\ link_out.kind = "md"
           /\ link_out.label = link_in.label
           /\ link_out.target = IF q THEN res_of(t) ELSE t

\* C14 without the two cases the code treats otherwise: a target that has a scheme
\* other than http/https, and a target that contains a '.' only in its directory part
C14_InlineRewrittenOutsideThoseCases ==
    (link_in.kind = "md" /\ link_out # NoLink) =>
        LET t == link_in.target
            q == /\ ~IsAbsoluteUrl(t)
                 /\ ~t.anchor
                 /\ has_dot(t)
                 /\ lower(t.ext) \notin {".md", ".txt"}
                 /\ ~t.res
        IN (t.scheme \in {"", "http://", "https://"} /\ (t.ext # "" \/ ~has_dot(t))) =>
              /\ link_out.kind = "md"
              /\ link_out.label = link_in.label
              /\ link_out.target = IF q THEN res_of(t) ELSE t

\* C15 as stated: a rewritten wiki link with an alias keeps its two halves in their
\* original left/right order, the qualifying half replaced by "!res/<basename>"
C15_HalvesKeepTheirOrder ==
    (link_in.kind = "wiki" /\ Len(link_in.halves) = 2 /\ link_out # NoLink
       /\ link_out # link_in) =>
        \E i \in {1, 2} :
            /\ Qualifies(link_in.halves[i])
            /\ link_out.halves[i] = res_of(link_in.halves[i])
            /\ link_out.halves[3 - i] = link_in.halves[3 - i]

\* C15: for a wiki link with an alias, the link is the left half if that half
\* qualifies and the right half otherwise; if the link qualifies and does not start
\* with "!res/" the bracket becomes [[<other half>|!res/<basename of the link>]],
\* the rewritten link always on the right of the '|'; otherwise the bracket is
\* returned as it was.
C15_AliasFirstLinkSecond ==
    (link_in.kind = "wiki" /\ Len(link_in.halves) = 2 /\ link_out # NoLink) =>
        LET l == link_in.halves[1]
            r == link_in.halves[2]
        IN /\ link_out.kind = "wiki"
           /\ link_out.halves =
                 CASE Qualifies(l) /\ ~l.res -> <<r, res_of(l)>>
                   [] ~Qualifies(l) /\ Qualifies(r) /\ ~r.res -> <<l, res_of(r)>>
                   [] OTHER -> <<l, r>>

C15_Witness ==
    /\ link_in.kind = "wiki" /\ Len(link_in.halves) = 2
    /\ link_in.halves[1].stem = "img" /\ link_in.halves[1].ext = ".png"
    /\ link_in.halves[1].dir = <<"..", "files">>
    /\ link_in.halves[2].stem = "Alias" /\ link_in.halves[2].ext = ""
    /\ link_out # NoLink
    /\ link_out.halves[1] = link_in.halves[2]
    /\ link_out.halves[2] = res_of(link_in.halves[1])

----------------------------------------------------------------------------
(* Claims about repeated and partial runs of the planner *)

\* the plan build_plan returns when the set linked_to_copy is iterated in the order ord
C16_PlanFrom(ord) ==
    LET a1 == actions
              \o [i \in DOMAIN ord |-> [type |-> "copy", src |-> ord[i].src, dest |-> ord[i].dest]]
              \o <<merge_settings_action>>
        st == dedup_all([actions |-> a1, notes |-> notes, replaced |-> <<>>], a1, hash_keys(a1))
    IN IF st.replaced # <<>> THEN st.actions \o repairs(st.actions, st.replaced)
       ELSE st.actions

C16_Triple(a) ==
    [type |-> a.type,
     source |-> ActSrcs(a),
     dest |-> IF HasDest(a) THEN <<a.dest>>
              ELSE IF a.type = "update_file_links" THEN <<a.file>> ELSE <<>>]

C16_Count(plan, t) == Cardinality({i \in DOMAIN plan : C16_Triple(plan[i]) = t})

C16_SameComposition(p1, p2) ==
    \A t \in {C16_Triple(p1[i]) : i \in DOMAIN p1} \cup {C16_Triple(p2[i]) : i \in DOMAIN p2} :
        C16_Count(p1, t) = C16_Count(p2, t)

\* C16: two runs of build_plan on the same arguments and the same files return plans
\* with the same composition of (type, source, destination) triples: whatever order
\* the linked files are appended in, the same members of each duplicate group are kept.
C16_SameStructuralDecisions ==
    pc = "linked" =>
        \A o1, o2 \in SeqsOf(linked_to_copy(actions)) :
            C16_SameComposition(C16_PlanFrom(o1), C16_PlanFrom(o2))

C17_InvalidDirs == {v \in Range(source_args) : v \notin obsidian_dirs}

C17_ValidFiles == {f \in DOMAIN fs : f[1] \in obsidian_dirs /\ ~ignored(f[2])}

C17_Warned(v) ==
    \E i \in DOMAIN warnings :
        warnings[i] = [kind |-> "does not contain any Obsidian vaults", src |-> v]

C17_NoActionFrom(v) ==
    \A i \in DOMAIN actions : \A src \in ActSrcs(actions[i]) : src.vault # v

C17_Indexed(f) ==
    \E i \in DOMAIN index :
        /\ index[i].rel = f[2]
        /\ \E j \in DOMAIN index[i].entries :
              index[i].entries[j].ap = [vault |-> f[1], rel |-> f[2]]

\* the plan has an action that reads the file, or an action for the file's destination
C17_HasAction(f) ==
    \E i \in DOMAIN actions :
        \/ [vault |-> f[1], rel |-> f[2]] \in ActSrcs(actions[i])
        \/ HasDest(actions[i]) /\ actions[i].dest = Relocate(f[2])

C17_Replaced(f) == \E i \in DOMAIN replaced_files : replaced_files[i][1] = Relocate(f[2])

\* C17 as stated: a source directory without vault marker is warned about and is the
\* source of no action, and every non-excluded file of every valid vault of the same
\* call has an action in the returned plan.
C17_EveryValidFileHasAction ==
    (pc = "done" /\ C17_InvalidDirs # {}) =>
        /\ \A v \in C17_InvalidDirs : C17_Warned(v) /\ C17_NoActionFrom(v)
        /\ \A f \in C17_ValidFiles : C17_Indexed(f) /\ C17_HasAction(f)

\* C17: a source directory without vault marker is warned about and is the source of
\* no action; every non-excluded file of every valid vault of the same call is indexed,
\* and the returned plan has an action that reads it or an action for its destination,
\* unless the cross-name dedup pass replaced that destination by another file of the
\* same content.
C17_InvalidDirSkippedValidScanned ==
    (pc = "done" /\ C17_InvalidDirs # {}) =>
        /\ \A v \in C17_InvalidDirs : C17_Warned(v) /\ C17_NoActionFrom(v)
        /\ \A f \in C17_ValidFiles :
              /\ C17_Indexed(f)
              /\ C17_HasAction(f) \/ C17_Replaced(f)

C17_Witness ==
    /\ pc = "done"
    /\ obsidian_dirs = {2}
    /\ <<1, P_a>> \in DOMAIN fs /\ <<1, P_img>> \in DOMAIN fs
    /\ <<2, P_a>> \in DOMAIN fs
    /\ C17_Warned(1) /\ C17_Warned(3)
    /\ \E i \in DOMAIN actions :
          actions[i] = [type |-> "copy", src |-> [vault |-> 2, rel |-> P_a], dest |-> P_a]

\* C19: the plan build_plan returns starts with the action {type: mkdir, path: "."}
\* and has no other mkdir action, also when no source is a vault and when the
\* cross-name dedup pass has removed or replaced actions.
C19_FirstAndOnlyMkdir ==
    pc = "done" =>
        /\ Len(actions) >= 1
        /\ actions[1] = [type |-> "mkdir", path |-> "."]
        /\ \A i \in DOMAIN actions : actions[i].type = "mkdir" => i = 1

C19_Witness ==
    /\ pc = "done"
    /\ replaced_files # <<>>
    /\ \E i \in DOMAIN actions : actions[i].type = "create_link_file"
    /\ actions[1] = [type |-> "mkdir", path |-> "."]

\* the plan when no source is a vault
C19_NoVaultPlan ==
    /\ pc = "done"
    /\ obsidian_dirs = {}
    /\ actions = <<[type |-> "mkdir", path |-> "."], merge_settings_action>>

----------------------------------------------------------------------------
(* Claims about a merge into a target without write permission *)

\* something the run has to create under the target: the settings directory, the
\* report, the parent directory of a destination, or a link file
C18_NeedsCreation ==
    \/ <<".obsidian">> \notin target_dirs
    \/ P_report \notin DOMAIN target_fs
    \/ \E i \in DOMAIN actions :
          /\ HasDest(actions[i])
          /\ \/ ~(Ancestors(actions[i].dest.dir) \subseteq target_dirs)
             \/ actions[i].type = "create_link_file" /\ actions[i].dest \notin DOMAIN target_fs

C18_Finished == apc \in {"returned", "raised"}

C18_ReturnsOverLeftovers ==
    /\ disk = "readonly"
    /\ apc = "returned"
    /\ \E i \in DOMAIN actions : actions[i].type = "copy" /\ actions[i].dest = P_a
    /\ target_fs[P_a].kind = "file"

----------------------------------------------------------------------------
(* Claims about generate_indexes, checked under SpecIndex *)

\* the files of the vault that the index lists
C20_Indexed ==
    {vault_files[i] : i \in {i \in DOMAIN vault_files :
        /\ ~name_has_skip_pattern(vault_files[i].path)
        /\ ~in_obsidian(vault_files[i].path)
        /\ ~stat_fails(vault_files[i].path)}}

C20_Months == {month_key_of(f.mtime) : f \in C20_Indexed}

C20_Years == {f.mtime[1] : f \in C20_Indexed}

C20_Written(name) == {i \in DOMAIN index_writes : index_writes[i].name = name}

\* int(month_num)
C20_MonthNumber(key) == 10 * key[2][1] + key[2][2]

----------------------------------------------------------------------------
(* Claims about update_file_tags, checked under SpecTags *)

\* C21: update_file_tags leaves the file as it is and returns False whenever the
\* file's leading frontmatter block is missing, is not parseable as YAML, or parses
\* to something that is not a mapping (a scalar or a list).
C21_NonMappingLeftUntouched ==
    [][(tag_ret = "none" /\ md_file # NoFile
          /\ md_file.fm \in {"none", "bad_yaml", "scalar", "list"})
         => (md_file' = md_file /\ tag_ret' = "False")]_vars

\* the part of C21 that holds: a missing or unparsable block
C21_MissingOrUnparsableLeftUntouched ==
    [][(tag_ret = "none" /\ md_file # NoFile /\ md_file.fm \in {"none", "bad_yaml"})
         => (md_file' = md_file /\ tag_ret' = "False")]_vars

\* C22: when the output directory holds a YEAR*.md or MONTH*.md file and overwrite is
\* false, generate_indexes stops at the check: it writes no index file and updates
\* the tags of no file, also when update_tags is true.
C22_RefusedRunWritesNothing ==
    (existing_files # {} /\ ~overwrite) =>
        /\ ipc \in {"start", "refused"}
        /\ index_writes = <<>>
        /\ tagged = {}
        /\ file_data = <<>>

C22_Witness ==
    /\ ipc = "refused"
    /\ update_tags
    /\ \E i \in DOMAIN vault_files : vault_files[i].path = I_n1
    /\ index_writes = <<>> /\ tagged = {}

----------------------------------------------------------------------------
(* Claims about build_plan_action, checked under SpecGui *)

C23_Returned == gui_in # NoCall /\ gui_out # <<>>

C23_Valid == gui_sources(gui_in.sources_str) # <<>> /\ gui_in.target_str # ""

\* C23: build_plan_action returns a tuple of exactly 8 elements on every path: with
\* sources or target empty (the status, its 4th element, is then the "Please provide"
\* message), when the plan is built (the status is then ""), and when the planner
\* raises.
C23_EightElementsOnEveryPath ==
    C23_Returned =>
        /\ Len(gui_out) = 8
        /\ ~C23_Valid => gui_out[4] = "Please provide"
        /\ (C23_Valid /\ pc = "done") => gui_out[4] = ""

\* the part of C23 that holds: the validation path returns 8 elements, and the status
\* is the 4th element on every path
C23_EightElementsOnValidationPath ==
    C23_Returned =>
        /\ ~C23_Valid => (Len(gui_out) = 8 /\ gui_out[4] = "Please provide")
        /\ (C23_Valid /\ pc = "done") => (Len(gui_out) = 9 /\ gui_out[4] = "")
        /\ (C23_Valid /\ pc = "raised") => (Len(gui_out) = 9 /\ gui_out[4] # "")

----------------------------------------------------------------------------
(* Claims about _copy inside apply_plan, checked under SpecApply *)

C24_AtCopy == at({"copy", "rename_copy"}) /\ ~dry_run

\* the destination's parent directory exists or can be created
C24_ParentOk(io) == Ancestors(cur.dest.dir) \subseteq target_dirs \/ io.mk

C24_Placeholder == [kind |-> "copy_failed", name |-> cur.src.rel]

\* C24 as stated: when the source of a copy or rename_copy cannot be read and the
\* destination is writable, the placeholder naming the source is written, nothing is
\* raised and the loop goes on; when the placeholder write fails too, no file is at
\* the destination afterwards and the loop still goes on.
C24_PlaceholderOrNoFile ==
    /\ [](C24_AtCopy =>
            \A io \in IOs :
                (~readable(cur.src, io.rd) /\ C24_ParentOk(io)) =>
                    LET st == copy_file(here, cur.src, cur.dest, io)
                    IN /\ st.raised = "none"
                       /\ io.wr2 => (cur.dest \in DOMAIN st.fs
                                       /\ st.fs[cur.dest] = C24_Placeholder)
                       /\ ~io.wr2 => cur.dest \notin DOMAIN st.fs)
    /\ [][(C24_AtCopy /\ apc' # "raised") => (apc' = "loop" /\ pos' = pos + 1)]_vars

\* C24: when the source of a copy or rename_copy cannot be read and the parent
\* directory of the destination exists or can be created, nothing is raised and the
\* loop goes on to the next action; the destination then holds the placeholder
\* naming the source if the placeholder could be written, and is left as it was
\* before the action (absent if it was absent, the earlier file if there was one)
\* if it could not.
C24_PlaceholderOrUntouched ==
    /\ [](C24_AtCopy =>
            \A io \in IOs :
                (~readable(cur.src, io.rd) /\ C24_ParentOk(io)) =>
                    LET st == copy_file(here, cur.src, cur.dest, io)
                    IN /\ st.raised = "none"
                       /\ io.wr2 => (cur.dest \in DOMAIN st.fs
                                       /\ st.fs[cur.dest] = C24_Placeholder)
                       /\ ~io.wr2 => st.fs = target_fs)
    /\ [][(C24_AtCopy /\ apc' # "raised") => (apc' = "loop" /\ pos' = pos + 1)]_vars

\* a failed read has left a placeholder behind and apply_plan ran on to its end
C24_Witness ==
    /\ apc = "returned" /\ ~dry_run /\ Len(actions) = MaxPlanLen
    /\ actions[1].type = "rename_copy"
    /\ "read" \in failed /\ "fallback_write" \notin failed
    /\ actions[1].dest \in DOMAIN target_fs
    /\ target_fs[actions[1].dest] = [kind |-> "copy_failed", name |-> actions[1].src.rel]
    /\ Len(executed) = MaxPlanLen

\* a failed read whose placeholder could not be written either, over a destination
\* that an earlier action of the plan had written: the earlier file is still there
C24_WitnessUntouched ==
    /\ apc = "returned" /\ ~dry_run /\ Len(actions) = 2
    /\ actions[1].type = "copy" /\ actions[2].type = "copy"
    /\ failed = {"read", "fallback_write"}
    /\ actions[2].dest \in DOMAIN target_fs
    /\ target_fs[actions[2].dest].kind = "file"

----------------------------------------------------------------------------
(* Claims about the update_file_links branch, checked under SpecRepair *)

C25_AtUpdate == at({"update_file_links"}) /\ ~dry_run /\ pos = 1

RECURSIVE C25_Final(_, _)
\* where one link ends up when the pairs are applied one after the other
C25_Final(l, updates) ==
    IF updates = <<>> THEN l
    ELSE C25_Final(IF l = Head(updates)[1] THEN Head(updates)[2] ELSE l, Tail(updates))

RECURSIVE C25_Hit(_, _)
\* some pair finds its old link among the links as rewritten by the pairs before it
C25_Hit(links, updates) ==
    IF updates = <<>> THEN FALSE
    ELSE \/ Head(updates)[1] \in links
         \/ C25_Hit({C25_Final(l, <<Head(updates)>>) : l \in links}, Tail(updates))

C25_Replaced(f) == {C25_Final(l, cur.link_updates) : l \in f.links}

\* C25 as stated: on an existing file the branch replaces the links pair by pair,
\* leaves all other text as it was (encoding and line ends included) and writes the
\* file back only if a replacement was made; if the file does not exist or reading,
\* replacing or writing fails, the file is left as it was; apply_plan goes on with
\* the next action in every case.
C25_OnlyLinksChange ==
    [][C25_AtUpdate =>
        /\ apc' = "loop" /\ pos' = pos + 1
        /\ target_dirs' = target_dirs
        /\ \/ target_fs' = target_fs
           \/ /\ P_a \in DOMAIN target_fs
              /\ C25_Hit(target_fs[P_a].links, cur.link_updates)
              /\ target_fs' = put(target_fs, P_a,
                                  [target_fs[P_a] EXCEPT !.links = C25_Replaced(target_fs[P_a])])
        /\ (P_a \notin DOMAIN target_fs
              \/ ~C25_Hit(target_fs[P_a].links, cur.link_updates)
              \/ failed' # failed) => target_fs' = target_fs]_vars

\* C25: the same, except that a file that is written back holds the text as read_text
\* decoded it: the links replaced pair by pair, undecodable bytes dropped and line
\* ends turned into "\n", everything else as it was.
C25_OnlyLinksAndEncodingChange ==
    [][C25_AtUpdate =>
        /\ apc' = "loop" /\ pos' = pos + 1
        /\ target_dirs' = target_dirs
        /\ \/ target_fs' = target_fs
           \/ /\ P_a \in DOMAIN target_fs
              /\ C25_Hit(target_fs[P_a].links, cur.link_updates)
              /\ target_fs' = put(target_fs, P_a,
                                  [target_fs[P_a] EXCEPT !.links = C25_Replaced(target_fs[P_a]),
                                                         !.form = "utf8_lf"])
        /\ (P_a \notin DOMAIN target_fs
              \/ ~C25_Hit(target_fs[P_a].links, cur.link_updates)
              \/ failed' # failed) => target_fs' = target_fs]_vars

\* a file with "\r\n" line ends has had a link replaced through two chained pairs and
\* apply_plan has run on to its end
C25_Witness ==
    /\ apc = "returned" /\ ~dry_run /\ failed = {}
    /\ actions[2].type = "mkdir"
    /\ actions[1].link_updates = <<<<P_img, P_b>>, <<P_b, Res(P_img)>>>>
    /\ P_a \in DOMAIN target_fs
    /\ target_fs[P_a].kind = "file"
    /\ target_fs[P_a].links = {Res(P_img)}
    /\ target_fs[P_a].form = "utf8_lf"
    /\ executed = <<1, 2>>

\* a pair outside target_root: nothing was written although another pair had a hit
C25_WitnessReplaceFails ==
    /\ apc = "returned" /\ ~dry_run /\ failed = {"replace"}
    /\ P_a \in DOMAIN target_fs
    /\ target_fs[P_a].links = {P_img} /\ target_fs[P_a].form = "crlf"
    /\ actions[1].link_updates = <<<<P_img, P_b>>, <<P_out, P_b>>>>

----------------------------------------------------------------------------
(* Claims about the legacy planner, checked under SpecLegacy *)

\* the scanned paths that the resolution loop turned into one copy action
C26_Copied ==
    {index[i].rel : i \in {k \in DOMAIN index :
                              Len(index[k].entries) = 1
                                \/ Cardinality(hashes(index[k].entries)) = 1}}

C26_HasCopyTo(dest) ==
    \E i \in DOMAIN actions : actions[i].type = "copy" /\ actions[i].dest = dest

\* rel is a linked non-text asset that the linked-file step relocated under !res/
C26_Relocated(rel) ==
    /\ rel \in index_links
    /\ lower(rel.ext) \notin {".md", ".txt"}
    /\ C26_HasCopyTo(Res(rel))

\* C26: in the finished legacy plan the copy action of a scanned file is missing only
\* if that file is a linked non-text asset whose copy the linked-file step relocated
\* under !res/; the copy of every other scanned file, a different file with the same
\* name in another directory included, is in the plan.
C26_OnlyShadowCopiesRemoved ==
    pc = "done" =>
        \A rel \in C26_Copied : ~C26_HasCopyTo(rel) => C26_Relocated(rel)

\* the part of C26 that holds: the shadow copy of a relocated asset is removed, and a
\* copy is removed only if its file name is that of a relocated asset
C26_RemovedBySameName ==
    pc = "done" =>
        /\ \A rel \in C26_Copied : C26_Relocated(rel) => ~C26_HasCopyTo(rel)
        /\ \A rel \in C26_Copied :
              ~C26_HasCopyTo(rel) =>
                  \E other \in index_links :
                      C26_Relocated(other) /\ basename(other) = basename(rel)

----------------------------------------------------------------------------
(* Claims about the finished plan of build_plan, checked under SpecPlan *)

\* the files the enumeration put into the index
C27_Enumerated ==
    {f \in Range(ScanList) : ~ignored(f.rel)}

\* the sources of the copy, rename_copy and merge_markdown actions of the plan
C27_PlanSources ==
    UNION {CASE actions[i].type \in {"copy", "rename_copy"} -> {actions[i].src}
             [] actions[i].type = "merge_markdown" -> {actions[i].src_a, actions[i].src_b}
             [] OTHER -> {} : i \in DOMAIN actions}

\* C27: for every file enumerated from a source vault and not excluded by an ignore
\* pattern, the finished plan holds a copy, rename_copy or merge_markdown action one of
\* whose sources has the same content hash as that file.
C27_NoContentLost ==
    pc = "done" =>
        \A f \in C27_Enumerated : \E src \in C27_PlanSources : sha256(src) = sha256(f)

\* two files of equal content under different names: the dedup pass has dropped the
\* action of one of them and the other still carries the content
C27_Witness ==
    /\ pc = "done"
    /\ \E f \in C27_Enumerated : f \notin C27_PlanSources
    /\ \E f, g \in C27_Enumerated :
          /\ f.rel # g.rel /\ sha256(f) = sha256(g)
          /\ f \notin C27_PlanSources /\ g \in C27_PlanSources
    /\ replaced_files # <<>>

----------------------------------------------------------------------------
(* Claims about the destinations of a plan, checked under SpecNames *)

C28_Producing ==
    {i \in DOMAIN actions :
        actions[i].type \in {"copy", "rename_copy", "merge_markdown", "create_link_file"}}

\* C28: in the finished plan the copy, rename_copy, merge_markdown and create_link_file
\* actions have pairwise distinct destinations, also when a vault holds a file that is
\* already named <stem>__vault-<label><ext>.
C28_DistinctDestinations ==
    pc = "done" =>
        \A i, j \in C28_Producing : i # j => actions[i].dest # actions[j].dest

\* the part of C28 that holds: two actions share a destination only if one of them is
\* a rename_copy and the other the copy, or the redirect stub that replaced the copy,
\* of a file that already has that name
C28_OnlyRenamedCopiesCollide ==
    pc = "done" =>
        \A i, j \in C28_Producing :
            (i # j /\ actions[i].dest = actions[j].dest) =>
                \/ {actions[i].type, actions[j].type} = {"copy", "rename_copy"}
                \/ {actions[i].type, actions[j].type} = {"create_link_file", "rename_copy"}

----------------------------------------------------------------------------
(* Claims about the order of link repair, checked under SpecMerge *)

C29_Updates == {i \in DOMAIN actions : actions[i].type = "update_file_links"}

\* C29: in the finished plan every update_file_links action comes after the copy
\* action whose dest is its file, and when apply_plan on a writable target reaches an
\* update_file_links action, that file has been written to the target.
C29_RepairAfterCopy ==
    /\ pc = "done" =>
          \A i \in C29_Updates :
              \E j \in 1..(i - 1) :
                  actions[j].type = "copy" /\ actions[j].dest = actions[i].file
    /\ (at({"update_file_links"}) /\ disk = "ok") =>
          /\ cur.file \in DOMAIN target_fs
          /\ target_fs[cur.file].kind = "file"

\* a merge has run to its end and has executed an update_file_links action that
\* replaced a link in the note copied before it
C29_Witness ==
    /\ apc = "returned" /\ disk = "ok"
    /\ \E i \in C29_Updates :
          /\ \E k \in DOMAIN executed : executed[k] = i
          /\ actions[i].file \in DOMAIN target_fs
          /\ \E u \in DOMAIN actions[i].link_updates :
                actions[i].link_updates[u][2] \in target_fs[actions[i].file].links

----------------------------------------------------------------------------
(* Claims about rewritten links after a whole merge, checked under SpecMerge *)

\* the note bodies in the target: copied notes and the two halves of merged notes
C30_Bodies ==
    UNION {CASE target_fs[d].kind = "file" /\ IsMd(d) -> {target_fs[d]}
             [] target_fs[d].kind = "merged" ->
                   {target_fs[d].parts[i] :
                       i \in {k \in DOMAIN target_fs[d].parts :
                                 target_fs[d].parts[k].kind = "file"}}
             [] OTHER -> {} : d \in DOMAIN target_fs}

\* the links of a body that the executor rewrote to !res/<name> and whose asset is a
\* file of some source vault
C30_Rewritten(body) ==
    {update_link(l) : l \in {x \in LinksOf(body.id) : update_link(x) # x /\ has_source(x)}}
        \cap body.links

\* C30: after build_plan and apply_plan on a writable target, every link the executor
\* rewrote to !res/<name> in a copied or merged note names a file of the target.
C30_RewrittenLinksResolve ==
    (apc = "returned" /\ disk = "ok") =>
        \A body \in C30_Bodies : C30_Rewritten(body) \subseteq DOMAIN target_fs

\* the rewritten link resolves whenever the plan still holds a copy of the asset at
\* !res/<name>: the asset was at the root of its vault and was not dropped by the
\* dedup pass
C30_ResolvesIfCopiedThere ==
    (apc = "returned" /\ disk = "ok") =>
        \A body \in C30_Bodies :
            \A l \in C30_Rewritten(body) :
                (\E i \in DOMAIN actions : actions[i].type = "copy" /\ actions[i].dest = l)
                    => l \in DOMAIN target_fs

====
